---- MODULE Spec2Model ----
(***************************************************************************)
(* Configuration and credential lifecycle manager of the VoipNow           *)
(* provisioning MCP server (provisioning/src/main.py, utils/token.py).     *)
(*                                                                         *)
(* Four specifications share the operators below:                          *)
(*   Spec      ConfigManager.load_config, reload after reload, on every    *)
(*             document, file state and issuer outcome                     *)
(*   SpecConc  ConfigManager under concurrency: the main thread's          *)
(*             get_config callers, SIGHUP frames and the watcher thread    *)
(*   SpecFile  generate_token and _safe_read_token_file on an inode-level  *)
(*             file system, with concurrent writers                        *)
(*   SpecSched TokenExpirationChecker and its timers, with reload-driven   *)
(*             restarts                                                    *)
(***************************************************************************)
EXTENDS Integers, Sequences, FiniteSets, TLC

(***************************************************************************)
(* Bounds of the model.                                                    *)
(***************************************************************************)
\* load_config invocations after which no new invocation is started
MaxLoads == 3
\* times the clock advances
MaxTicks == 1
\* get_config calls of the tool-call path (main thread)
MaxReads == 1
\* handle_hup frames that can be on the main thread's stack at once
MaxHupDepth == 1
\* reads of the credential file by _safe_read_token_file (SpecFile)
MaxFileReads == 2
\* entries into start_token_expiration_check, and Timer objects (SpecSched)
MaxRestarts == 2
MaxTimers == 3
\* the observer's clock, in tenths of a second, and modification events
\* (SpecWatch)
MaxClock == 11
MaxEvents == 3
\* characters of an access token (SpecRound)
MaxSecretLen == 3

(***************************************************************************)
(* Strings.  A text on which the code does prefix tests or splitting is a  *)
(* sequence of one-character (or one-token) strings.                       *)
(***************************************************************************)
HTTPS == <<"h", "t", "t", "p", "s", ":", "/", "/">>
HTTP == <<"h", "t", "t", "p", ":", "/", "/">>
FTP == <<"f", "t", "p", ":", "/", "/">>

\* str.startswith
StartsWith(s, p) == Len(s) >= Len(p) /\ SubSeq(s, 1, Len(p)) = p

\* str.split(sep): the list of parts, never empty
RECURSIVE Split(_, _)
Split(s, sep) ==
    IF \A i \in 1..Len(s) : s[i] # sep
    THEN <<s>>
    ELSE LET i == CHOOSE j \in 1..Len(s) :
                      s[j] = sep /\ \A k \in 1..(j - 1) : s[k] # sep
         IN <<SubSeq(s, 1, i - 1)>> \o Split(SubSeq(s, i + 1, Len(s)), sep)

\* the largest number the model renders or parses
MaxNum == 2000
MaxNow == 9
MaxSkew == 3
MaxCcLoads == 2
MaxChecks == 2
MaxIssues == 4

\* int(text): a decimal number token; ok is FALSE where int() raises ValueError
NumText == [n \in 0..MaxNum |-> ToString(n)]
\* the number a decimal text stands for
NumOf == [s \in {NumText[n] : n \in 0..MaxNum} |-> CHOOSE n \in 0..MaxNum : NumText[n] = s]
ParseInt(field) ==
    IF Len(field) = 1 /\ field[1] \in DOMAIN NumOf
    THEN [ok |-> TRUE, val |-> NumOf[field[1]]]
    ELSE [ok |-> FALSE, val |-> 0]

\* dict.get(key, default)
Get(d, k, default) == IF k \in DOMAIN d THEN d[k] ELSE default

(***************************************************************************)
(* Configuration documents (main.py).                                      *)
(***************************************************************************)
required_keys == {"appId", "appSecret", "voipnowHost", "voipnowTokenFile"}
allowed_keys == required_keys \cup {"authTokenMCP", "logLevel", "insecure"}

TOKEN_CHECK_INTERVAL_SECONDS == 300
INITIAL_TOKEN_CHECK_DELAY_SECONDS == 10
\* check_token's horizon
EXPIRY_HORIZON_SECONDS == 300

\* the empty dict of ConfigManager.__init__
EmptyDict == [k \in {} |-> ""]

BaseDoc ==
    ("appId" :> "A1") @@ ("appSecret" :> "S1") @@ ("voipnowHost" :> (HTTPS \o <<"a">>))
    @@ ("voipnowTokenFile" :> "/tok") @@ ("authTokenMCP" :> "m") @@ ("logLevel" :> "INFO")

Without(d, k) == [x \in DOMAIN d \ {k} |-> d[x]]
With(d, k, v) == (k :> v) @@ d

\* the documents an operator may put in the configuration file
Docs ==
    { BaseDoc,
      With(With(With(BaseDoc, "appSecret", "S2"), "insecure", "true"), "logLevel", "debug"),
      With(BaseDoc, "voipnowHost", HTTP \o <<"a">>),
      With(Without(BaseDoc, "appSecret"), "logLevel", "debug"),
      With(With(BaseDoc, "foo", "x"), "logLevel", "debug"),
      With(With(BaseDoc, "voipnowHost", FTP \o <<"a">>), "logLevel", "debug"),
      With(Without(BaseDoc, "authTokenMCP"), "logLevel", "debug"),
      With(BaseDoc, "voipnowTokenFile", "") }

\* what open() + json.load() of the configuration file yield
ConfigFiles ==
    [kind : {"json"}, doc : Docs]
    \cup [kind : {"unreadable", "nonjson"}, doc : {EmptyDict}]

MissingKeys(doc) == required_keys \ DOMAIN doc
ExtraKeys(doc) == DOMAIN doc \ allowed_keys
ValidUrl(doc) ==
    \/ StartsWith(Get(doc, "voipnowHost", <<>>), HTTPS)
    \/ StartsWith(Get(doc, "voipnowHost", <<>>), HTTP)

\* logging level names (logging._nameToLevel)
LevelNames == {"CRITICAL", "FATAL", "ERROR", "WARN", "WARNING", "INFO", "DEBUG", "NOTSET"}
Upper(s) == CASE s = "debug" -> "DEBUG" [] s = "info" -> "INFO" [] OTHER -> s
\* utils.logger.set_log_level: the level the logger has afterwards
SetLogLevel(level) == IF Upper(level) \in LevelNames THEN Upper(level) ELSE "INFO"

\* Python's True / False as JSON values, against the strings "true" / "false"
PyTrue == "<True>"
PyFalse == "<False>"
NormalizeInsecure(doc) ==
    IF "insecure" \in DOMAIN doc
    THEN [doc EXCEPT !["insecure"] =
              IF doc["insecure"] = PyTrue \/ doc["insecure"] = "true" THEN PyTrue ELSE PyFalse]
    ELSE doc

(***************************************************************************)
(* The validation part of load_config, lines 99-161, as the code orders    *)
(* it.  verdict: "raise" (ConfigurationError), "skip" (return) or          *)
(* "accept"; level: the logger's level after the part has run.             *)
(***************************************************************************)
ValidateLevelAfterUrl(doc, first, sec, level) ==
    IF sec /\ "authTokenMCP" \notin DOMAIN doc
    THEN [verdict |-> IF first THEN "raise" ELSE "skip", level |-> level]
    ELSE IF "voipnowTokenFile" \notin DOMAIN doc
    THEN [verdict |-> IF first THEN "raise" ELSE "skip", level |-> level]
    ELSE [verdict |-> "accept", level |-> level]

\* Validate without the check of lines 111-119
ValidateAnyKeys(doc, first, sec, level) ==
    IF MissingKeys(doc) # {}
    THEN [verdict |-> IF first THEN "raise" ELSE "skip", level |-> level]
    ELSE LET lv == SetLogLevel(Get(doc, "logLevel", "INFO"))
         IN IF ~ValidUrl(doc) THEN [verdict |-> "raise", level |-> lv]
            ELSE ValidateLevelAfterUrl(doc, first, sec, lv)
Validate(doc, first, sec, level) ==
    IF MissingKeys(doc) # {}
    THEN [verdict |-> IF first THEN "raise" ELSE "skip", level |-> level]
    ELSE IF ExtraKeys(doc) # {}
    THEN [verdict |-> IF first THEN "raise" ELSE "skip", level |-> level]
    ELSE LET lv == SetLogLevel(Get(doc, "logLevel", "INFO"))
         IN IF ~ValidUrl(doc)
            THEN [verdict |-> "raise", level |-> lv]
            ELSE ValidateLevelAfterUrl(doc, first, sec, lv)

(***************************************************************************)
(* Credential file contents (utils/token.py).  A content is a sequence of  *)
(* tokens; ":" is the separator, a number is its decimal text.             *)
(***************************************************************************)
\* no file at the path
Absent == [exists |-> FALSE, data |-> <<>>]
File(data) == [exists |-> TRUE, data |-> data]

\* generate_token, lines 108-111: the text written for an issuer response
TokenData(t, expires_in, access_token) ==
    <<ToString(t), ":", ToString(t + expires_in), ":">> \o access_token

\* _safe_read_token_file, lines 47-69: ok is FALSE where it raises ValueError
SafeReadTokenFile(f) ==
    IF ~f.exists THEN [ok |-> FALSE, data |-> <<>>]
    ELSE IF f.data = <<>> THEN [ok |-> FALSE, data |-> <<>>]
    ELSE IF Len(Split(f.data, ":")) < 3 THEN [ok |-> FALSE, data |-> <<>>]
    ELSE [ok |-> TRUE, data |-> f.data]

\* check_token with > in place of >= at line 155
CheckTokenStrict(f, t) ==
    LET r == SafeReadTokenFile(f) IN
    IF ~r.ok THEN "ValueError"
    ELSE LET exp == ParseInt(Split(r.data, ":")[2]) IN
         IF ~exp.ok THEN "ValueError"
         ELSE IF t > exp.val - EXPIRY_HORIZON_SECONDS THEN "expiring" ELSE "fresh"
\* check_token, lines 147-157: "expiring", "fresh", or "ValueError"
CheckToken(f, t) ==
    LET r == SafeReadTokenFile(f) IN
    IF ~r.ok THEN "ValueError"
    ELSE LET exp == ParseInt(Split(r.data, ":")[2]) IN
         IF ~exp.ok THEN "ValueError"
         ELSE IF t >= exp.val - EXPIRY_HORIZON_SECONDS THEN "expiring" ELSE "fresh"

\* get_expiration_timestamp, lines 160-170
GetExpirationTimestamp(f) ==
    LET r == SafeReadTokenFile(f) IN
    IF ~r.ok THEN [ok |-> FALSE, val |-> 0]
    ELSE ParseInt(Split(r.data, ":")[2])

\* load_config, line 201: token_data.split(":")[-1]
LastPart(data) == LET parts == Split(data, ":") IN parts[Len(parts)]

\* hashlib.sha256(str(auth_config)).hexdigest(): a digest is determined by,
\* and (no collisions) determines, the three fields
ConfigHash(cfg) ==
    <<"sha256", Get(cfg, "appId", ""), Get(cfg, "appSecret", "")>>
    \o Get(cfg, "voipnowHost", <<>>)

\* check_config_change, lines 173-238, on the fingerprint file hf and the
\* credential file tf (no concurrent file operation): what it returns and
\* the two files afterwards
CheckConfigChange(cfg, hf, tf) ==
    IF ~hf.exists
    THEN [changed |-> FALSE, hashfile |-> File(ConfigHash(cfg)), tokfile |-> tf]
    ELSE IF hf.data # ConfigHash(cfg)
    THEN [changed |-> TRUE, hashfile |-> File(ConfigHash(cfg)),
          tokfile |-> IF Get(cfg, "voipnowTokenFile", "") # "" THEN Absent ELSE tf]
    ELSE [changed |-> FALSE, hashfile |-> hf, tokfile |-> tf]

(***************************************************************************)
(* The issuer (requests.post in generate_token) and what generate_token    *)
(* raises.                                                                 *)
(***************************************************************************)
Lifetimes == {200, 400}
\* the access_token of the n-th call
Secret(n) == <<"s", ToString(n)>>

\* the ways a generate_token call ends: "ok" (file written) or the exception
IssuerErrors ==
    {"SSLError", "HTTPError401InvalidClient", "HTTPError", "ConnectionError", "Timeout",
     "RequestException", "KeyErrorExpiresIn", "KeyErrorAccessToken", "IOError"}
IssuerOutcomes ==
    [kind : {"ok"}, expires_in : Lifetimes]
    \cup [kind : IssuerErrors, expires_in : {0}]

\* exception classes of requests.exceptions (all subclasses of RequestException)
RequestExceptions ==
    {"SSLError", "HTTPError401InvalidClient", "HTTPError", "ConnectionError", "Timeout",
     "RequestException"}

\* "token" in str(e).lower(), for the exceptions load_config can see:
\* KeyError('access_token'), RuntimeError("Failed to generate valid token");
\* not KeyError('expires_in') nor a json.JSONDecodeError message
MessageHasToken(exc) == exc \in {"KeyErrorAccessToken", "RuntimeErrorToken"}

\* except clauses that raise ConfigurationError whatever self.config_data is
HandleExceptionRaising(exc, cd) == "raise"
\* load_config's except clauses, lines 225-291, in their order: what the
\* handler of exception exc does when self.config_data is cd.
\* "raise": ConfigurationError leaves load_config; "return": logged, normal
\* return; "regen": the token-error branch, lines 270-275
HandleException(exc, cd) ==
    LET first == (DOMAIN cd = {}) IN
    IF exc \in RequestExceptions
    THEN IF first THEN "raise" ELSE "return"
    ELSE IF exc \in {"JSONDecodeError", "KeyErrorExpiresIn", "KeyErrorAccessToken",
                     "RuntimeErrorToken"}
    THEN IF MessageHasToken(exc) /\ ~first THEN "regen"
         ELSE IF first THEN "raise" ELSE "return"
    ELSE IF exc = "ConfigurationError" THEN "raise"
    ELSE \* IOError, OSError
         IF first THEN "raise" ELSE "return"

\* the except clause of the token-error branch, lines 276-277, for a failed
\* second generate_token: caught and logged ("return") or not caught
HandleRegenException(exc) ==
    IF exc \in RequestExceptions \cup {"IOError"} THEN "return" ELSE "escape"

(***************************************************************************)
(* TokenExpirationChecker objects and threading.Timer objects, and         *)
(* ConfigManager.start_token_expiration_check run without interleaving.    *)
(***************************************************************************)
NewChecker(cfg, interval) ==
    [config_mcp |-> cfg, interval |-> interval, running |-> FALSE, timer |-> 0]
\* a threading.Timer(delay, owner._check_token); state is "new", "pending"
\* (started, waiting), "cancelled", the position of its thread inside
\* _check_token once it has fired, or how the thread ended: "finished"
\* (_check_token returned), "rejected" (it returned after self.stop()),
\* "died" (an exception left it); arg is the delay that thread passes to
\* _schedule_next_check
NewTimer(owner, delay) == [owner |-> owner, delay |-> delay, state |-> "new", arg |-> 0]

\* threading.Timer.cancel
CancelTimer(tms, t) ==
    [tms EXCEPT ![t].state = IF @ \in {"new", "pending"} THEN "cancelled" ELSE @]

\* TokenExpirationChecker.stop, lines 281-287
StopChecker(sch, c) ==
    [sch EXCEPT !.checkers[c].running = FALSE,
                !.checkers[c].timer = 0,
                !.timers = IF sch.checkers[c].timer # 0
                           THEN CancelTimer(@, sch.checkers[c].timer) ELSE @]

\* TokenExpirationChecker._schedule_next_check, lines 289-301
ScheduleNextCheck(sch, c, delay) ==
    IF ~sch.checkers[c].running THEN sch
    ELSE [sch EXCEPT !.timers = Append(@, [NewTimer(c, delay) EXCEPT !.state = "pending"]),
                     !.checkers[c].timer = Len(sch.timers) + 1]

\* TokenExpirationChecker.start, lines 266-279
StartChecker(sch, c, initial_delay) ==
    IF sch.checkers[c].running THEN sch
    ELSE ScheduleNextCheck([sch EXCEPT !.checkers[c].running = TRUE], c, initial_delay)

\* ConfigManager.start_token_expiration_check, lines 320-337
StartTokenExpirationCheck(sch, cfg) ==
    LET stopped == IF sch.token_checker # 0 THEN StopChecker(sch, sch.token_checker) ELSE sch
        created == [stopped EXCEPT
                       !.checkers = Append(@, NewChecker(cfg, TOKEN_CHECK_INTERVAL_SECONDS)),
                       !.token_checker = Len(stopped.checkers) + 1]
    IN StartChecker(created, created.token_checker, INITIAL_TOKEN_CHECK_DELAY_SECONDS)

(***************************************************************************)
(* State.                                                                  *)
(***************************************************************************)
VARIABLES
    \* environment: args.secure, time.time()
    secure, now,
    \* the credential file and the fingerprint file (<path>.config_hash)
    tokfile, hashfile,
    \* ConfigManager attributes; voipnow_config is a reference into heap
    config_data, voipnow_token, voipnow_config, heap, log_level, lock,
    \* ConfigManager.__init__ has returned normally; history: the first
    \* load_config (the one __init__ runs) reached "Configuration reloaded."
    constructed, first_ok,
    \* [token_checker, checkers, timers]: ConfigManager._token_checker and
    \* the TokenExpirationChecker and threading.Timer objects ever created
    sched,
    \* position of each activation, and how the last load_config to end ended
    pc, result,
    \* history of the load_config that last took the lock: whether an earlier
    \* one had reached "Configuration reloaded.", the dict voipnow_config
    \* referred to, whether this one reached line 178, what
    \* check_config_change returned, needs_regeneration, the generate_token
    \* calls it has made and how the last of them ended
    reload,
    \* the tool-call path: the reference get_config returned, and for each
    \* field read from it so far the publish that wrote the value read
    snap, seen,
    \* generate_token calls made so far
    issued,
    \* counters bounding the model
    loads, reads,
    \* the credential path and its sibling <path>.tmp as directory entries
    \* (0: no entry) into the files (inodes) ever created; each
    \* generate_token caller and the reader of the credential file
    dir, inodes, wr, rdr,
    \* the thread inside start_token_expiration_check, and how many times it
    \* was entered
    rpc, restarts,
    \* the watchdog observer and its ConfigFileHandler: [clock, queue,
    \* last_reload_time, pc, modified_path]; history: the events raised so
    \* far, for each watched path the time of the first one and whether all
    \* were raised within one debounce window of it, and the load_config
    \* calls made for the path; loaded: how many modifications the content
    \* of the configuration file had seen when load_config last read it
    watch,
    \* a credential on its way through the credential file: [pc, issuedAt,
    \* expires_in, access_token, read]
    rt,
    \* one application of a function to inputs drawn at the start: [pc, arg,
    \* res]
    fn,
    \* lines 172-207 of load_config file operation by file operation, in
    \* cooperating processes: [file, tmp, proc, chk] with the configuration
    \* file, the fingerprint's .tmp sibling, each process's position and the
    \* in-flight scheduled check; history: edited, crashed, madeWith (the
    \* configuration the credential in the file was issued for)
    cc,
    \* the running system after its first load: [inDir, issues, checks,
    \* origins, reloadIssues]: whether the credential file lies in the
    \* watched directory, the generate_token calls made so far, the
    \* scheduled checks run so far; history: for each event raised so far
    \* whether a check or a reload wrote the file, and the generate_token
    \* calls made by reloads that on_modified started for an event of a
    \* reload's write
    lp

cmVars == <<config_data, voipnow_token, voipnow_config, heap, log_level>>
envVars == <<secure, now>>
fsVars == <<tokfile, hashfile, issued>>
ctlVars == <<lock, constructed, first_ok, pc, result, reload>>
rdVars == <<snap, seen, reads>>
lfVars == <<dir, inodes, wr, rdr>>
tcVars == <<rpc, restarts>>
exVars == <<fn, cc, lp>>
wtVars == <<watch, rt, exVars>>
otherVars == <<lfVars, tcVars, wtVars>>
vars == <<envVars, fsVars, cmVars, ctlVars, sched, rdVars, loads, otherVars>>

(***************************************************************************)
(* Activations.  "main" is the main thread (ConfigManager construction,    *)
(* then call_tool); "hup1" and "hup2" are handle_hup frames, which run on  *)
(* the main thread on top of whatever it was doing; "watcher" is the       *)
(* watchdog thread running ConfigFileHandler.on_modified.                  *)
(***************************************************************************)
HupNames == <<"hup1", "hup2", "hup3">>
HupFrames == {HupNames[i] : i \in 1..MaxHupDepth}
Activations == {"main", "watcher"} \cup HupFrames
\* the depth of a frame on the main thread's stack
Depth(a) == IF a \in HupFrames THEN CHOOSE i \in 1..MaxHupDepth : HupNames[i] = a ELSE 0
\* the frames of the main thread that sit on top of frame a
Above(a) ==
    IF a = "watcher" THEN {} ELSE {h \in HupFrames : Depth(h) > Depth(a)}
\* the frames of the main thread that frame a interrupted
Below(a) ==
    IF a \in HupFrames
    THEN {"main"} \cup {h \in HupFrames : Depth(h) < Depth(a)} ELSE {}

ProcessUp == pc["main"] \notin {"aborted", "crashed"}
\* a frame runs only while no signal handler frame is on top of it
CanRun(a) == ProcessUp /\ \A h \in Above(a) : pc[h] = "off"

\* positions inside the body of load_config (inside "with self.lock")
BodyPcs == {"lc_begin", "lc_gen", "lc_read", "lc_regen", "lc_relock"}
\* positions inside a generate_token call of load_config
IssuerPcs == {"lc_gen", "lc_regen"}

RaisedKinds == {"ConfigurationError", "KeyError"}

\* a load_config that has just taken the lock
NoReload ==
    [after_ok |-> FALSE, before |-> EmptyDict, decided |-> FALSE, changed |-> FALSE,
     needed |-> FALSE, calls |-> 0, outcome |-> "none"]

\* a lock that is granted whatever its state
CanAcquireAlways(l) == TRUE
\* threading.Lock.acquire can return: the lock is not held
CanAcquire(l) == l = "free"

\* where the activations stand after load_config ended with res in a
PcAfterLoad(a, res) ==
    CASE a = "main" ->
            IF res \in RaisedKinds THEN [pc EXCEPT !["main"] = "aborted"]
            ELSE [pc EXCEPT !["main"] = "idle", !["watcher"] = "idle"]
      [] a = "watcher" ->
            [pc EXCEPT ![a] = IF res \in RaisedKinds THEN "dead" ELSE "idle"]
      [] OTHER ->
            IF res \in RaisedKinds THEN [pc EXCEPT ![a] = "off", !["main"] = "crashed"]
            ELSE [pc EXCEPT ![a] = "off"]

\* load_config ends: the with statement releases the lock; an exception
\* leaves through the caller
Finish(a, res) ==
    /\ lock' = "free"
    /\ pc' = PcAfterLoad(a, res)
    /\ result' = res
    /\ constructed' = (constructed \/ (a = "main" /\ res \notin RaisedKinds))
    /\ first_ok' = (first_ok \/ (a = "main" /\ res = "ok"))

\* an exception raised in the try block reaches the except clauses
Dispatch(a, exc, cd) ==
    LET h == HandleException(exc, cd) IN
    IF h = "regen"
    THEN /\ pc' = [pc EXCEPT ![a] = "lc_regen"]
         /\ UNCHANGED <<lock, result, constructed, first_ok>>
    ELSE Finish(a, IF h = "raise" THEN "ConfigurationError" ELSE "logged")

\* the fields written into the dict that is already published
PublishInPlace(h, ref, obj) == [heap |-> [h EXCEPT ![ref] = obj], ref |-> ref]
\* the dict of lines 214-218 becomes self.voipnow_config: a new object
Publish(h, ref, obj) == [heap |-> Append(h, obj), ref |-> Len(h) + 1]

\* the outcomes generate_token(cfg) can have: it posts to
\* "https://" + host unless the host already starts with "https://"
GenerateOutcomes(cfg, outcomes) ==
    IF StartsWith(cfg["voipnowHost"], HTTPS) THEN outcomes
    ELSE {o \in outcomes : o.kind \in {"ConnectionError", "RequestException"}}

TypeOK ==
    /\ secure \in BOOLEAN
    /\ now \in 0..(300 * MaxTicks)
    /\ lock \in Activations \cup {"free"}
    /\ constructed \in BOOLEAN
    /\ first_ok \in BOOLEAN
    /\ voipnow_config \in 1..Len(heap)
    /\ log_level \in LevelNames

\* no file-level and no scheduler-level activity
LfRest ==
    /\ dir = [tok |-> 0, tmp |-> 0]
    /\ inodes = <<>>
    /\ wr = <<>>
    /\ rdr = <<>>
TcRest ==
    /\ rpc = "off"
    /\ restarts = 0
\* no event of the observer, no credential under way
NoWatch ==
    [clock |-> 0, queue |-> <<>>, last_reload_time |-> EmptyDict, pc |-> "idle",
     modified_path |-> "", events |-> 0,
     raised |-> [p \in {"config", "token"} |-> [n |-> 0, first |-> 0, within |-> TRUE]],
     calls |-> [p \in {"config", "token"} |-> 0], loaded |-> 0]
NoRoundTrip == [pc |-> "off", issuedAt |-> 0, expires_in |-> 0, access_token |-> <<>>,
                read |-> <<>>]
NoCall == [pc |-> "off", arg |-> <<>>, res |-> <<>>]
Procs == {"p1", "p2"}
NoProc == [pc |-> "idle", cfg |-> 0, fd |-> "none", changed |-> FALSE, loads |-> 0, up |-> FALSE]
NoCc ==
    [file |-> 1, tmp |-> Absent, proc |-> [p \in Procs |-> NoProc],
     chk |-> [pc |-> "off", cfg |-> 0], edited |-> FALSE, crashed |-> FALSE, madeWith |-> 0]
NoLoop == [inDir |-> TRUE, issues |-> 0, checks |-> 0, origins |-> <<>>, reloadIssues |-> 0]
ExRest ==
    /\ fn = NoCall
    /\ cc = NoCc
    /\ lp = NoLoop
WtRest ==
    /\ watch = NoWatch
    /\ rt = NoRoundTrip
    /\ ExRest

\* the ConfigManager before construction
CmInit ==
    /\ secure \in BOOLEAN
    /\ now = 0
    /\ tokfile = Absent
    /\ hashfile \in {Absent, File(ConfigHash(BaseDoc))}
    /\ config_data = EmptyDict
    /\ voipnow_token = <<"<None>">>
    /\ heap = <<[set |-> FALSE, voipnowUrl |-> <<>>, voipnowToken |-> <<>>,
                 insecure |-> PyFalse, pub |-> 0]>>
    /\ voipnow_config = 1
    /\ log_level = "INFO"
    /\ lock = "free"
    /\ constructed = FALSE
    /\ first_ok = FALSE
    /\ reload = NoReload
    /\ sched = [token_checker |-> 0, checkers |-> <<>>, timers |-> <<>>]
    /\ pc = [a \in Activations |-> IF a = "main" THEN "lc_lock" ELSE "off"]
    /\ result = "none"
    /\ snap = 0
    /\ seen = <<>>
    /\ loads = 1
    /\ issued = 0
    /\ reads = 0

Init == CmInit /\ LfRest /\ TcRest /\ WtRest

(***************************************************************************)
(* load_config, main.py lines 91-291.                                      *)
(***************************************************************************)
\* line 93: with self.lock
LcAcquire(a) ==
    /\ pc[a] = "lc_lock"
    /\ CanRun(a)
    /\ CanAcquire(lock)
    /\ lock' = a
    /\ reload' = [NoReload EXCEPT !.after_ok = first_ok, !.before = heap[voipnow_config]]
    /\ pc' = [pc EXCEPT ![a] = "lc_begin"]
    /\ UNCHANGED <<otherVars, envVars, fsVars, cmVars, constructed, first_ok, result,
                   sched, rdVars, loads>>

\* lines 95-193: read and validate the document (cfgfile: what the
\* configuration file holds when it is read), set the log level, replace
\* config_data, check the fingerprint, decide on regeneration
LcBegin(a, files) ==
    /\ pc[a] = "lc_begin"
    /\ CanRun(a)
    /\ UNCHANGED <<otherVars, envVars, voipnow_token, voipnow_config, heap, sched, rdVars, loads>>
    /\ \E cfgfile \in files :
       LET first == (DOMAIN config_data = {}) IN
       IF cfgfile.kind # "json"
       THEN /\ Dispatch(a, IF cfgfile.kind = "unreadable" THEN "OSError"
                           ELSE "JSONDecodeError", config_data)
            /\ UNCHANGED <<fsVars, config_data, log_level, reload>>
       ELSE LET v == Validate(cfgfile.doc, first, secure, log_level)
                cd == NormalizeInsecure(cfgfile.doc)
            IN /\ log_level' = v.level
               /\ IF v.verdict = "raise"
                  THEN /\ Dispatch(a, "ConfigurationError", config_data)
                       /\ UNCHANGED <<fsVars, config_data, reload>>
                  ELSE IF v.verdict = "skip"
                  THEN /\ Finish(a, "skipped")
                       /\ UNCHANGED <<fsVars, config_data, reload>>
                  ELSE /\ config_data' = cd
                       /\ IF cd["voipnowTokenFile"] = ""
                          THEN /\ Dispatch(a, "ConfigurationError", cd)
                               /\ UNCHANGED <<fsVars, reload>>
                          ELSE LET c == CheckConfigChange(cd, hashfile, tokfile)
                                   needs_regeneration ==
                                       \/ ~c.tokfile.exists
                                       \/ CheckToken(c.tokfile, now) # "fresh"
                               IN /\ hashfile' = c.hashfile
                                  /\ tokfile' = c.tokfile
                                  /\ UNCHANGED issued
                                  /\ reload' = [reload EXCEPT !.decided = TRUE,
                                                               !.changed = c.changed,
                                                               !.needed = needs_regeneration]
                                  /\ pc' = [pc EXCEPT ![a] =
                                               IF needs_regeneration THEN "lc_gen"
                                               ELSE "lc_read"]
                                  /\ UNCHANGED <<lock, result, constructed, first_ok>>

\* lines 196-197: generate_token(self.config_data), the issuer call and
\* the write of the credential file
LcGenerate(a, outcomes) ==
    /\ pc[a] = "lc_gen"
    /\ CanRun(a)
    /\ UNCHANGED <<otherVars, envVars, hashfile, cmVars, sched, rdVars, loads>>
    /\ issued' = issued + 1
    /\ \E o \in GenerateOutcomes(config_data, outcomes) :
          /\ reload' = [reload EXCEPT !.calls = @ + 1, !.outcome = o.kind]
          /\ IF o.kind = "ok"
             THEN /\ tokfile' = File(TokenData(now, o.expires_in, Secret(issued + 1)))
                  /\ pc' = [pc EXCEPT ![a] = "lc_read"]
                  /\ UNCHANGED <<lock, result, constructed, first_ok>>
             ELSE /\ Dispatch(a, o.kind, config_data)
                  /\ UNCHANGED tokfile

\* lines 199-223: read the credential, publish, restart the checker
LcRead(a) ==
    /\ pc[a] = "lc_read"
    /\ CanRun(a)
    /\ UNCHANGED <<otherVars, envVars, fsVars, config_data, log_level, rdVars, loads,
                   reload>>
    /\ LET r == SafeReadTokenFile(tokfile) IN
       IF r.ok
       THEN LET token == LastPart(r.data)
                p == Publish(heap, voipnow_config,
                             [set |-> TRUE,
                              voipnowUrl |-> Get(config_data, "voipnowHost", <<>>),
                              voipnowToken |-> token,
                              insecure |-> Get(config_data, "insecure", PyFalse),
                              pub |-> heap[voipnow_config].pub + 1])
            IN /\ voipnow_token' = token
               /\ heap' = p.heap
               /\ voipnow_config' = p.ref
               /\ sched' = StartTokenExpirationCheck(sched, config_data)
               /\ Finish(a, "ok")
       ELSE /\ Dispatch(a, "RuntimeErrorToken", config_data)
            /\ UNCHANGED <<voipnow_token, heap, voipnow_config, sched>>

\* lines 270-281: the token-error branch: a second generate_token, then the
\* recursive self.load_config(), which waits for the lock its own thread holds
LcRegen(a, outcomes) ==
    /\ pc[a] = "lc_regen"
    /\ CanRun(a)
    /\ UNCHANGED <<otherVars, envVars, hashfile, cmVars, sched, rdVars, loads>>
    /\ issued' = issued + 1
    /\ \E o \in GenerateOutcomes(config_data, outcomes) :
          /\ reload' = [reload EXCEPT !.calls = @ + 1, !.outcome = o.kind]
          /\ IF o.kind = "ok"
             THEN /\ tokfile' = File(TokenData(now, o.expires_in, Secret(issued + 1)))
                  /\ pc' = [pc EXCEPT ![a] = "lc_relock"]
                  /\ UNCHANGED <<lock, result, constructed, first_ok>>
             ELSE /\ Finish(a, IF HandleRegenException(o.kind) = "return" THEN "logged"
                               ELSE "KeyError")
                  /\ UNCHANGED tokfile

(***************************************************************************)
(* get_config (lines 293-299) and its callers.                             *)
(***************************************************************************)
\* call_tool, line 409: the tool-call path enters get_config
CallTool ==
    /\ pc["main"] = "idle"
    /\ CanRun("main")
    /\ reads < MaxReads
    /\ reads' = reads + 1
    /\ pc' = [pc EXCEPT !["main"] = "gc_lock"]
    /\ UNCHANGED <<otherVars, envVars, fsVars, cmVars, lock, constructed, first_ok, reload,
                   result, sched, snap, seen,
                   loads>>

\* ConfigFileHandler.on_modified, lines 348-352, for an event on the
\* configuration file or the credential file: it enters get_config
OnModified ==
    /\ pc["watcher"] = "idle"
    /\ ProcessUp
    /\ loads < MaxLoads
    /\ loads' = loads + 1
    /\ pc' = [pc EXCEPT !["watcher"] = "gc_lock"]
    /\ UNCHANGED <<otherVars, envVars, fsVars, cmVars, lock, constructed, first_ok, reload,
                   result, sched, rdVars>>

\* get_config reading the references without the mutex
GcAcquireNoLock(a) ==
    /\ pc[a] = "gc_lock"
    /\ CanRun(a)
    /\ pc' = [pc EXCEPT ![a] = "gc_in"]
    /\ UNCHANGED <<otherVars, envVars, fsVars, cmVars, lock, constructed, first_ok, reload,
                   result, sched,
                   rdVars, loads>>

\* line 295: with self.lock
GcAcquire(a) ==
    /\ pc[a] = "gc_lock"
    /\ CanRun(a)
    /\ CanAcquire(lock)
    /\ lock' = a
    /\ pc' = [pc EXCEPT ![a] = "gc_in"]
    /\ UNCHANGED <<otherVars, envVars, fsVars, cmVars, constructed, first_ok, reload, result,
                   sched, rdVars, loads>>

\* lines 296-299: the references are returned and the lock released; the
\* tool-call path goes on to read the fields, on_modified (lines 358-371) to
\* load_config
GcReturn(a) ==
    /\ pc[a] = "gc_in"
    /\ CanRun(a)
    /\ lock' = "free"
    /\ IF a = "main"
       THEN /\ snap' = voipnow_config
            /\ seen' = <<>>
            /\ pc' = [pc EXCEPT ![a] = "rd"]
       ELSE /\ pc' = [pc EXCEPT ![a] = "lc_lock"]
            /\ UNCHANGED <<snap, seen>>
    /\ UNCHANGED <<otherVars, envVars, fsVars, cmVars, constructed, first_ok, reload, result,
                   sched, reads, loads>>

\* the tool handler reads one more field of the mapping it was given
\* (utils.py: insecure, voipnowUrl, voipnowToken); a field missing from an
\* empty mapping ends the call with KeyError; when the call ends its locals
\* are gone
ReadField ==
    /\ pc["main"] = "rd"
    /\ CanRun("main")
    /\ IF Len(seen) = 3 \/ (Len(seen) = 1 /\ ~heap[snap].set)
       THEN /\ pc' = [pc EXCEPT !["main"] = "idle"]
            /\ snap' = 0
            /\ seen' = <<>>
       ELSE /\ seen' = Append(seen, heap[snap].pub)
            /\ UNCHANGED <<pc, snap>>
    /\ UNCHANGED <<otherVars, envVars, fsVars, cmVars, lock, constructed, first_ok, reload,
                   result, sched, reads, loads>>

(***************************************************************************)
(* handle_hup, lines 443-449: SIGHUP is handled on the main thread, between*)
(* two bytecodes of whatever frame is running there.                       *)
(***************************************************************************)
HupSignal(h) ==
    /\ constructed
    /\ ProcessUp
    /\ pc[h] = "off"
    /\ \A b \in Below(h) \cap HupFrames : pc[b] # "off"
    /\ loads < MaxLoads
    /\ loads' = loads + 1
    /\ pc' = [pc EXCEPT ![h] = "lc_lock"]
    /\ UNCHANGED <<otherVars, envVars, fsVars, cmVars, lock, constructed, first_ok, reload,
                   result, sched, rdVars>>

(***************************************************************************)
(* Environment.                                                            *)
(***************************************************************************)
\* the credential file is removed, truncated or rewritten from outside the
\* ConfigManager (a cooperating process, a scheduled check).  Only
\* load_config looks at the file, so the change is taken when a load_config
\* is about to look
TokenFileChange(contents) ==
    /\ \E a \in Activations : pc[a] \in {"lc_begin", "lc_read"}
    /\ \E f \in contents : f # tokfile /\ tokfile' = f
    /\ UNCHANGED <<otherVars, envVars, hashfile, issued, cmVars, ctlVars, sched, rdVars, loads>>

\* time passes
Tick ==
    /\ now + 300 <= 300 * MaxTicks
    /\ now' = now + 300
    /\ UNCHANGED <<otherVars, secure, fsVars, cmVars, ctlVars, sched, rdVars, loads>>

\* the contents an outside writer leaves at the credential path
OutsideContents == {Absent, File(<<>>), File(TokenData(now, 400, <<"b">>))}

\* the first load by the main thread, then reloads by the watcher thread
Next ==
    \/ \E a \in {"main", "watcher"} : LcAcquire(a)
    \/ \E a \in {"main", "watcher"} : LcBegin(a, ConfigFiles)
    \/ \E a \in {"main", "watcher"} : LcGenerate(a, IssuerOutcomes)
    \/ \E a \in {"main", "watcher"} : LcRead(a)
    \/ \E a \in {"main", "watcher"} : LcRegen(a, IssuerOutcomes)
    \/ OnModified
    \/ GcAcquire("watcher")
    \/ GcReturn("watcher")
    \/ TokenFileChange(OutsideContents)
    \/ Tick

Spec == Init /\ [][Next]_vars

(***************************************************************************)
(* SpecConc: every activation, on two documents and three issuer outcomes. *)
(***************************************************************************)
ConcFiles ==
    [kind : {"json"},
     doc : {BaseDoc,
            With(With(With(BaseDoc, "appSecret", "S2"), "insecure", "true"),
                 "logLevel", "debug")}]
ConcOutcomes ==
    {o \in IssuerOutcomes :
        \/ o.kind \in {"Timeout", "KeyErrorAccessToken"}
        \/ o.kind = "ok" /\ o.expires_in = 400}

InitConc ==
    /\ Init
    /\ secure = FALSE
    /\ hashfile = Absent

NextConc ==
    \/ \E a \in Activations : LcAcquire(a)
    \/ \E a \in Activations : LcBegin(a, ConcFiles)
    \/ \E a \in Activations : LcGenerate(a, ConcOutcomes)
    \/ \E a \in Activations : LcRead(a)
    \/ \E a \in Activations : LcRegen(a, ConcOutcomes)
    \/ CallTool
    \/ OnModified
    \/ \E a \in {"main", "watcher"} : GcAcquire(a)
    \/ \E a \in {"main", "watcher"} : GcReturn(a)
    \/ ReadField
    \/ \E h \in HupFrames : HupSignal(h)
    \/ TokenFileChange({Absent})

SpecConc == InitConc /\ [][NextConc]_vars

(***************************************************************************)
(* SpecFile: the credential file at the level of directory entries and     *)
(* files.  generate_token (token.py lines 113-144) is run once by each of  *)
(* a reload, a scheduled check (timer thread) and a cooperating process,   *)
(* all on the same credential path and the same sibling <path>.tmp, while  *)
(* a reader runs _safe_read_token_file (lines 40-69).                      *)
(***************************************************************************)
Writers == {"reload", "timer", "process"}

\* the credential on disk before any of the writes, and the one each writer
\* got from the issuer (access tokens of different lengths)
PreviousCredential == TokenData(0, 400, <<"s", "0">>)
WriterSecret(w) ==
    IF w = "reload" THEN <<"s", "1">>
    ELSE IF w = "timer" THEN <<"s", "2", "2">>
    ELSE <<"s", "3", "3", "3">>
DataOf(w) == TokenData(0, 400, WriterSecret(w))
CompleteCredentials == {PreviousCredential} \cup {DataOf(w) : w \in Writers}

NewInode == [data |-> <<>>, ex |-> "none", sh |-> FALSE]
\* write() at offset 0 of a file that holds old
Overwrite(old, new) == new \o SubSeq(old, Len(new) + 1, Len(old))

InitFile ==
    /\ CmInit /\ secure = FALSE /\ hashfile = Absent
    /\ TcRest
    /\ WtRest
    /\ dir = [tok |-> 1, tmp |-> 0]
    /\ inodes = <<[NewInode EXCEPT !.data = PreviousCredential]>>
    /\ wr = [w \in Writers |-> [pc |-> "idle", fd |-> 0]]
    /\ rdr = [pc |-> "idle", fd |-> 0, data |-> <<>>, reads |-> 0]

lfOthers == <<envVars, fsVars, cmVars, ctlVars, sched, rdVars, loads, tcVars, wtVars>>

\* line 121: open(temp_file_path, "w") creates the file, or truncates the
\* one that is there
WOpen(w) ==
    /\ wr[w].pc = "idle"
    /\ IF dir.tmp = 0
       THEN /\ inodes' = Append(inodes, NewInode)
            /\ dir' = [dir EXCEPT !.tmp = Len(inodes) + 1]
            /\ wr' = [wr EXCEPT ![w] = [pc |-> "opened", fd |-> Len(inodes) + 1]]
       ELSE /\ inodes' = [inodes EXCEPT ![dir.tmp].data = <<>>]
            /\ wr' = [wr EXCEPT ![w] = [pc |-> "opened", fd |-> dir.tmp]]
            /\ UNCHANGED dir
    /\ UNCHANGED <<rdr, lfOthers>>

\* line 123: flock(LOCK_EX) on the open file
WLock(w) ==
    /\ wr[w].pc = "opened"
    /\ inodes[wr[w].fd].ex = "none"
    /\ ~ inodes[wr[w].fd].sh
    /\ inodes' = [inodes EXCEPT ![wr[w].fd].ex = w]
    /\ wr' = [wr EXCEPT ![w].pc = "locked"]
    /\ UNCHANGED <<dir, rdr, lfOthers>>

\* lines 125-127: write, flush, fsync
WWrite(w) ==
    /\ wr[w].pc = "locked"
    /\ inodes' = [inodes EXCEPT ![wr[w].fd].data = Overwrite(@, DataOf(w))]
    /\ wr' = [wr EXCEPT ![w].pc = "written"]
    /\ UNCHANGED <<dir, rdr, lfOthers>>

\* line 129 and the end of the with block: unlock, close
WUnlock(w) ==
    /\ wr[w].pc = "written"
    /\ inodes' = [inodes EXCEPT ![wr[w].fd].ex = "none"]
    /\ wr' = [wr EXCEPT ![w].pc = "closed"]
    /\ UNCHANGED <<dir, rdr, lfOthers>>

\* lines 132-133: os.rename(temp, path) and chmod, then the normal return;
\* without a temp entry rename raises FileNotFoundError (an OSError, which
\* is what IOError names)
WRename(w) ==
    /\ wr[w].pc = "closed"
    /\ IF dir.tmp # 0
       THEN /\ dir' = [tok |-> dir.tmp, tmp |-> 0]
            /\ wr' = [wr EXCEPT ![w].pc = "done"]
       ELSE /\ wr' = [wr EXCEPT ![w].pc = "cleanup"]
            /\ UNCHANGED dir
    /\ UNCHANGED <<inodes, rdr, lfOthers>>

\* lines 134-141: the temp file is removed if there is one, IOError raised
WCleanup(w) ==
    /\ wr[w].pc = "cleanup"
    /\ dir' = [dir EXCEPT !.tmp = 0]
    /\ wr' = [wr EXCEPT ![w].pc = "failed"]
    /\ UNCHANGED <<inodes, rdr, lfOthers>>

\* _safe_read_token_file, line 48: open(token_file_path, "r")
ROpen ==
    /\ rdr.pc \in {"idle", "returned", "ValueError"}
    /\ rdr.reads < MaxFileReads
    /\ rdr' = [pc |-> IF dir.tok = 0 THEN "ValueError" ELSE "opened",
               fd |-> dir.tok, data |-> <<>>, reads |-> rdr.reads + 1]
    /\ UNCHANGED <<dir, inodes, wr, lfOthers>>

\* line 50: flock(LOCK_SH)
RLock ==
    /\ rdr.pc = "opened"
    /\ inodes[rdr.fd].ex = "none"
    /\ inodes' = [inodes EXCEPT ![rdr.fd].sh = TRUE]
    /\ rdr' = [rdr EXCEPT !.pc = "locked"]
    /\ UNCHANGED <<dir, wr, lfOthers>>

\* lines 51-54: read, unlock, close
RRead ==
    /\ rdr.pc = "locked"
    /\ inodes' = [inodes EXCEPT ![rdr.fd].sh = FALSE]
    /\ rdr' = [rdr EXCEPT !.pc = "read", !.data = inodes[rdr.fd].data]
    /\ UNCHANGED <<dir, wr, lfOthers>>

\* lines 56-66: the checks on what was read
RCheck ==
    /\ rdr.pc = "read"
    /\ rdr' = [rdr EXCEPT !.pc = IF SafeReadTokenFile(File(rdr.data)).ok
                                 THEN "returned" ELSE "ValueError"]
    /\ UNCHANGED <<dir, inodes, wr, lfOthers>>

\* a cooperating process takes flock(LOCK_EX) on the file at the credential
\* path or at its sibling <path>.tmp and never releases it
HolderLock(e) ==
    /\ dir[e] # 0
    /\ inodes[dir[e]].ex = "none"
    /\ ~ inodes[dir[e]].sh
    /\ inodes' = [inodes EXCEPT ![dir[e]].ex = "holder"]
    /\ UNCHANGED <<dir, wr, rdr, lfOthers>>

NextFile ==
    \/ \E e \in {"tok", "tmp"} : HolderLock(e)
    \/ \E w \in Writers : WOpen(w)
    \/ \E w \in Writers : WLock(w)
    \/ \E w \in Writers : WWrite(w)
    \/ \E w \in Writers : WUnlock(w)
    \/ \E w \in Writers : WRename(w)
    \/ \E w \in Writers : WCleanup(w)
    \/ ROpen
    \/ RLock
    \/ RRead
    \/ RCheck

SpecFile == InitFile /\ [][NextFile]_vars

\* a thread that is inside generate_token or _safe_read_token_file and can
\* take its next step takes it
WriterStep(w) == WLock(w) \/ WWrite(w) \/ WUnlock(w) \/ WRename(w) \/ WCleanup(w)
ReaderStep == RLock \/ RRead \/ RCheck
SpecFileFair ==
    /\ SpecFile
    /\ \A w \in Writers : WF_vars(WriterStep(w))
    /\ WF_vars(ReaderStep)

(***************************************************************************)
(* SpecSched: the TokenExpirationChecker statement by statement.  Timer    *)
(* threads run _check_token while a thread holding the ConfigManager mutex *)
(* runs start_token_expiration_check (main.py lines 320-337).              *)
(***************************************************************************)
InitSched ==
    /\ secure = FALSE
    /\ now = 0
    /\ tokfile \in {Absent, File(PreviousCredential)}
    /\ hashfile = File(ConfigHash(BaseDoc))
    /\ config_data = BaseDoc
    /\ voipnow_token = <<"<None>">>
    /\ heap = <<[set |-> FALSE, voipnowUrl |-> <<>>, voipnowToken |-> <<>>,
                 insecure |-> PyFalse, pub |-> 0]>>
    /\ voipnow_config = 1
    /\ log_level = "INFO"
    /\ lock = "free"
    /\ constructed = FALSE
    /\ first_ok = FALSE
    /\ reload = NoReload
    /\ sched = [token_checker |-> 0, checkers |-> <<>>, timers |-> <<>>]
    /\ pc = [a \in Activations |-> "off"]
    /\ result = "none"
    /\ snap = 0
    /\ seen = <<>>
    /\ loads = 1
    /\ issued = 0
    /\ reads = 0
    /\ LfRest
    /\ WtRest
    /\ rpc = "idle"
    /\ restarts = 0

tcOthers == <<secure, hashfile, cmVars, ctlVars, rdVars, loads, lfVars, wtVars>>

\* the Timer objects created so far
Timers == 1..Len(sched.timers)
TimerIds == 1..MaxTimers
Owner(t) == sched.timers[t].owner
TimerState(t) == sched.timers[t].state
Min(x, y) == IF x <= y THEN x ELSE y
\* the thread of timer t moves to position st, with delay argument arg
Goto(sch, t, st, arg) ==
    [sch EXCEPT !.timers[t].state = st, !.timers[t].arg = arg]

\* threading.Timer.run: the delay is over and the timer was not cancelled
Fire(t) ==
    /\ t \in Timers
    /\ TimerState(t) = "pending"
    /\ Len(sched.timers) < MaxTimers
    /\ sched' = Goto(sched, t, "ck_guard", 0)
    /\ UNCHANGED <<now, tokfile, issued, tcVars, tcOthers>>

\* _check_token, lines 305-306: the running guard
CkGuard(t) ==
    /\ t \in Timers
    /\ TimerState(t) = "ck_guard"
    /\ sched' = Goto(sched, t, IF sched.checkers[Owner(t)].running
                               THEN "ck_body" ELSE "finished", 0)
    /\ UNCHANGED <<now, tokfile, issued, tcVars, tcOthers>>

\* lines 308-314 and 373-376: the path check and check_token
CkBody(t) ==
    /\ t \in Timers
    /\ TimerState(t) = "ck_body"
    /\ LET c == sched.checkers[Owner(t)]
           r == CheckToken(tokfile, now)
       IN sched' =
            IF Get(c.config_mcp, "voipnowTokenFile", "") = ""
            THEN Goto(sched, t, "finished", 0)
            ELSE IF r = "ValueError" THEN Goto(sched, t, "sn_guard", c.interval)
            ELSE IF r = "expiring" THEN Goto(sched, t, "ck_issue", 0)
            ELSE Goto(sched, t, "ck_next", 0)
    /\ UNCHANGED <<now, tokfile, issued, tcVars, tcOthers>>

\* the fast retry delay of lines 333-362, min(60, self.interval / 5); the
\* interval is a multiple of 5 (TOKEN_CHECK_INTERVAL_SECONDS)
RetryDelay(interval) == Min(60, interval \div 5)

\* lines 316-363: generate_token and the except clauses around it; a
\* KeyError is named by no except clause of _check_token and ends the thread
CkIssue(t, outcomes) ==
    /\ t \in Timers
    /\ TimerState(t) = "ck_issue"
    /\ \E o \in outcomes :
         LET c == sched.checkers[Owner(t)] IN
         /\ issued' = issued + 1
         /\ tokfile' = IF o.kind = "ok"
                       THEN File(TokenData(now, o.expires_in, Secret(issued + 1)))
                       ELSE tokfile
         /\ sched' =
              IF o.kind = "ok" THEN Goto(sched, t, "ck_next", 0)
              ELSE IF o.kind = "HTTPError401InvalidClient"
              THEN Goto(sched, t, "stop_running", 0)
              ELSE IF o.kind \in RequestExceptions \cup {"IOError"}
              THEN Goto(sched, t, "sn_guard", RetryDelay(c.interval))
              ELSE Goto(sched, t, "died", 0)
    /\ UNCHANGED <<now, tcVars, tcOthers>>

\* lines 366-375 and 385-387: next_check from what
\* get_expiration_timestamp returned (e) at time t
NextCheckDelayFixed(e, t, interval) == interval
NextCheckDelay(e, t, interval) ==
    IF ~ e.ok THEN interval
    ELSE IF e.val - t > 0 THEN Min(e.val - t, interval)
    ELSE interval

\* lines 366-387: the next delay, the callback
CkNext(t) ==
    /\ t \in Timers
    /\ TimerState(t) = "ck_next"
    /\ LET c == sched.checkers[Owner(t)]
           e == GetExpirationTimestamp(tokfile)
       IN sched' = Goto(sched, t, "sn_guard", NextCheckDelay(e, now, c.interval))
    /\ UNCHANGED <<now, tokfile, issued, tcVars, tcOthers>>

\* _schedule_next_check, lines 296-297
SnGuard(t) ==
    /\ t \in Timers
    /\ TimerState(t) = "sn_guard"
    /\ sched' = Goto(sched, t, IF sched.checkers[Owner(t)].running
                               THEN "sn_create" ELSE "finished",
                     sched.timers[t].arg)
    /\ UNCHANGED <<now, tokfile, issued, tcVars, tcOthers>>

\* line 299: self._timer = threading.Timer(delay, self._check_token)
SnCreate(t) ==
    /\ t \in Timers
    /\ TimerState(t) = "sn_create"
    /\ sched' = [Goto(sched, t, "sn_start", 0) EXCEPT
                    !.timers = Append(@, NewTimer(Owner(t), sched.timers[t].arg)),
                    !.checkers[Owner(t)].timer = Len(sched.timers) + 1]
    /\ UNCHANGED <<now, tokfile, issued, tcVars, tcOthers>>

\* threading.Timer.start: a cancelled timer never calls its function
StartTimer(tms, n) ==
    [tms EXCEPT ![n].state = IF @ = "new" THEN "pending" ELSE @]

\* lines 300-301: self._timer.daemon = True; self._timer.start(), on
\* whatever self._timer is by now (None: AttributeError ends the thread)
SnStart(t) ==
    /\ t \in Timers
    /\ TimerState(t) = "sn_start"
    /\ LET n == sched.checkers[Owner(t)].timer
       IN sched' = IF n = 0 THEN Goto(sched, t, "died", 0)
                   ELSE [Goto(sched, t, "finished", 0) EXCEPT
                            !.timers = StartTimer(@, n)]
    /\ UNCHANGED <<now, tokfile, issued, tcVars, tcOthers>>

\* TokenExpirationChecker.stop, lines 281-287, one statement at a time
StopKeepsRunning(sch, c) == sch
StopRunning(sch, c) == [sch EXCEPT !.checkers[c].running = FALSE]
StopCancel(sch, c) == [sch EXCEPT !.timers = CancelTimer(@, sch.checkers[c].timer)]
StopClear(sch, c) == [sch EXCEPT !.checkers[c].timer = 0]

\* self.stop() in the timer thread after an invalid_client rejection
\* (line 327), after which _check_token returns ("rejected"); line 285 on
\* a _timer that is None by now raises AttributeError, which ends the
\* thread ("died")
TStop(t) ==
    /\ t \in Timers
    /\ TimerState(t) \in {"stop_running", "stop_test", "stop_cancel", "stop_clear"}
    /\ LET c == Owner(t)
           st == TimerState(t)
           armed == sched.checkers[c].timer # 0
       IN sched' =
            IF st = "stop_running" THEN Goto(StopRunning(sched, c), t, "stop_test", 0)
            ELSE IF st = "stop_test"
            THEN Goto(sched, t, IF armed THEN "stop_cancel" ELSE "rejected", 0)
            ELSE IF st = "stop_cancel"
            THEN IF armed THEN Goto(StopCancel(sched, c), t, "stop_clear", 0)
                 ELSE Goto(sched, t, "died", 0)
            ELSE Goto(StopClear(sched, c), t, "rejected", 0)
    /\ UNCHANGED <<now, tokfile, issued, tcVars, tcOthers>>

\* start_token_expiration_check is entered (load_config line 223)
RsEnter ==
    /\ rpc = "idle"
    /\ restarts < MaxRestarts
    /\ restarts' = restarts + 1
    /\ rpc' = IF sched.token_checker # 0 THEN "stop_running" ELSE "create"
    /\ UNCHANGED <<now, tokfile, issued, sched, tcOthers>>

\* lines 323-324: self._token_checker.stop(); rpc "raised" is the
\* AttributeError of line 285 leaving start_token_expiration_check
RsStop ==
    /\ rpc \in {"stop_running", "stop_test", "stop_cancel", "stop_clear"}
    /\ LET c == sched.token_checker
           armed == sched.checkers[c].timer # 0
       IN IF rpc = "stop_running"
          THEN sched' = StopRunning(sched, c) /\ rpc' = "stop_test"
          ELSE IF rpc = "stop_test"
          THEN sched' = sched /\ rpc' = IF armed THEN "stop_cancel" ELSE "create"
          ELSE IF rpc = "stop_cancel"
          THEN IF armed THEN sched' = StopCancel(sched, c) /\ rpc' = "stop_clear"
               ELSE sched' = sched /\ rpc' = "raised"
          ELSE sched' = StopClear(sched, c) /\ rpc' = "create"
    /\ UNCHANGED <<now, tokfile, issued, restarts, tcOthers>>

\* lines 326-337: the new checker is created and started; no other thread
\* has a reference to it before its timer is started
RsCreate ==
    /\ rpc = "create"
    /\ LET created == [sched EXCEPT
                          !.checkers = Append(@, NewChecker(config_data,
                                                 TOKEN_CHECK_INTERVAL_SECONDS)),
                          !.token_checker = Len(sched.checkers) + 1]
       IN sched' = StartChecker(created, created.token_checker,
                                INITIAL_TOKEN_CHECK_DELAY_SECONDS)
    /\ rpc' = "idle"
    /\ UNCHANGED <<now, tokfile, issued, restarts, tcOthers>>

\* time passes
TickSched ==
    /\ now + 300 <= 300 * MaxTicks
    /\ now' = now + 300
    /\ UNCHANGED <<tokfile, issued, sched, tcVars, tcOthers>>

NextSched ==
    \/ \E t \in TimerIds : Fire(t)
    \/ \E t \in TimerIds : CkGuard(t)
    \/ \E t \in TimerIds : CkBody(t)
    \/ \E t \in TimerIds : CkIssue(t, IssuerOutcomes)
    \/ \E t \in TimerIds : CkNext(t)
    \/ \E t \in TimerIds : SnGuard(t)
    \/ \E t \in TimerIds : SnCreate(t)
    \/ \E t \in TimerIds : SnStart(t)
    \/ \E t \in TimerIds : TStop(t)
    \/ RsEnter
    \/ RsStop
    \/ RsCreate
    \/ TickSched

SpecSched == InitSched /\ [][NextSched]_vars

(***************************************************************************)
(* SpecWatch: the watchdog observer thread.  Modification events of the    *)
(* watched directory are queued when they are raised and handed, one at a  *)
(* time, to ConfigFileHandler.on_modified (main.py lines 348-371), which   *)
(* runs load_config itself.  The clock counts tenths of a second.          *)
(***************************************************************************)
\* line 362: the 1.0 second debounce; line 368: time.sleep(0.1)
DEBOUNCE_TENTHS == 10
SETTLE_TENTHS == 1

\* the configuration file, the credential file, any other file of the
\* watched directory
Paths == {"config", "token", "other"}
WatchedPaths == {"config", "token"}

InitWatch ==
    /\ CmInit /\ secure = FALSE /\ hashfile = Absent
    /\ LfRest
    /\ TcRest
    /\ WtRest

wtOthers == <<envVars, fsVars, cmVars, ctlVars, sched, rdVars, loads, lfVars, tcVars, rt, exVars>>

\* the file at path p is modified: the observer queues the event
Modify(p) ==
    /\ watch.events < MaxEvents
    /\ LET r == watch.raised IN
       watch' = [watch EXCEPT
                    !.queue = Append(@, p),
                    !.events = @ + 1,
                    !.raised =
                        IF p \notin WatchedPaths THEN r
                        ELSE IF r[p].n = 0
                        THEN [r EXCEPT ![p] = [n |-> 1, first |-> watch.clock,
                                               within |-> TRUE]]
                        ELSE [r EXCEPT ![p].n = @ + 1,
                                       ![p].within =
                                           /\ r[p].within
                                           /\ watch.clock - r[p].first < DEBOUNCE_TENTHS]]
    /\ UNCHANGED wtOthers

\* a tenth of a second passes
TickWatch ==
    /\ watch.clock < MaxClock
    /\ watch' = [watch EXCEPT !.clock = @ + 1]
    /\ UNCHANGED wtOthers

\* lines 348-364: on_modified is called with the oldest queued event; the
\* path filter, then the debounce test on time.time() as it is now
OmBegin ==
    /\ watch.pc = "idle"
    /\ watch.queue # <<>>
    /\ LET modified_path == Head(watch.queue)
           current_time == watch.clock
           last_reload_time == watch.last_reload_time
           returned == [watch EXCEPT !.queue = Tail(@)]
       IN watch' =
            IF modified_path \notin WatchedPaths THEN returned
            ELSE IF /\ modified_path \in DOMAIN last_reload_time
                    /\ current_time - last_reload_time[modified_path] < DEBOUNCE_TENTHS
            THEN returned
            ELSE [returned EXCEPT
                     !.last_reload_time = With(last_reload_time, modified_path, current_time),
                     !.pc = "sleep",
                     !.modified_path = modified_path]
    /\ UNCHANGED wtOthers

\* lines 368-371: time.sleep(0.1) has returned and load_config is called
OmLoad ==
    /\ watch.pc = "sleep"
    /\ watch.clock >= watch.last_reload_time[watch.modified_path] + SETTLE_TENTHS
    /\ watch' = [watch EXCEPT !.pc = "load", !.calls[watch.modified_path] = @ + 1,
                               !.loaded = watch.raised["config"].n]
    /\ UNCHANGED wtOthers

\* load_config returns, after the time its issuer call and file operations
\* took, and on_modified with it
OmReturn ==
    /\ watch.pc = "load"
    /\ watch' = [watch EXCEPT !.pc = "idle"]
    /\ UNCHANGED wtOthers

NextWatch ==
    \/ \E p \in Paths : Modify(p)
    \/ TickWatch
    \/ OmBegin
    \/ OmLoad
    \/ OmReturn

SpecWatch == InitWatch /\ [][NextWatch]_vars

\* the observer thread keeps running and time keeps passing; only the
\* configuration file is modified
NextLost ==
    \/ Modify("config")
    \/ TickWatch
    \/ OmBegin
    \/ OmLoad
    \/ OmReturn
SpecWatchFair ==
    /\ InitWatch
    /\ [][NextLost]_vars
    /\ WF_vars(TickWatch) /\ WF_vars(OmBegin) /\ WF_vars(OmLoad) /\ WF_vars(OmReturn)

(***************************************************************************)
(* SpecRound: one credential written by generate_token (token.py lines     *)
(* 108-133) and read back as check_token, get_expiration_timestamp and     *)
(* load_config (main.py lines 200-201) read it.                            *)
(***************************************************************************)
\* access tokens: texts over a letter and the colon
SecretChars == {"a", ":"}
Secrets == UNION {[1..n -> SecretChars] : n \in 1..MaxSecretLen}

InitRound ==
    /\ CmInit /\ secure = FALSE /\ hashfile = Absent
    /\ LfRest
    /\ TcRest
    /\ watch = NoWatch
    /\ ExRest
    /\ rt \in [pc : {"issued"}, issuedAt : {0, 300}, expires_in : Lifetimes,
               access_token : Secrets, read : {<<>>}]

rtOthers ==
    <<envVars, hashfile, issued, cmVars, ctlVars, sched, rdVars, loads, lfVars, tcVars, watch,
      exVars>>

\* generate_token, lines 107-133: the issuer's response is written
RtSave ==
    /\ rt.pc = "issued"
    /\ tokfile' = File(TokenData(rt.issuedAt, rt.expires_in, rt.access_token))
    /\ rt' = [rt EXCEPT !.pc = "saved"]
    /\ UNCHANGED rtOthers

\* the file is read: the expiry as get_expiration_timestamp returns it, the
\* secret as load_config takes it (no code reads the first field back)
RtLoad ==
    /\ rt.pc = "saved"
    /\ LET r == SafeReadTokenFile(tokfile)
           e == GetExpirationTimestamp(tokfile)
       IN rt' = IF r.ok /\ e.ok
                THEN [rt EXCEPT !.pc = "loaded",
                                !.read = [expiresAt |-> e.val, secret |-> LastPart(r.data)]]
                ELSE [rt EXCEPT !.pc = "ValueError"]
    /\ UNCHANGED <<tokfile, rtOthers>>

NextRound == RtSave \/ RtLoad

SpecRound == InitRound /\ [][NextRound]_vars

(***************************************************************************)
(* SpecValid: the first load_config of a process (main.py lines 95-211,    *)
(* self.config_data still empty) applied to one configuration document.    *)
(***************************************************************************)
\* documents with every combination of the four required keys, authTokenMCP
\* and a key outside allowed_keys, three schemes of voipnowHost and an empty
\* or non-empty voipnowTokenFile
ValidDocs ==
    { [k \in keys |-> full[k]] :
          keys \in { K \cup {"logLevel"} :
                          K \in SUBSET (required_keys \cup {"authTokenMCP", "foo"}) },
          full \in { With(With(With(BaseDoc, "foo", "x"), "voipnowHost", h \o <<"a">>),
                          "voipnowTokenFile", f) :
                         h \in {HTTPS, HTTP, FTP}, f \in {"/tok", ""} } }

InitValid ==
    /\ CmInit /\ hashfile = Absent
    /\ LfRest
    /\ TcRest
    /\ watch = NoWatch
    /\ rt = NoRoundTrip
    /\ fn \in [pc : {"loaded"}, arg : ValidDocs, res : {<<>>}]
    /\ cc = NoCc
    /\ lp = NoLoop

vdOthers ==
    <<secure, now, fsVars, voipnow_token, voipnow_config, heap, ctlVars, sched, rdVars,
      loads, lfVars, tcVars, watch, rt, cc, lp>>

\* lines 99-161 and 208-211 on the document json.load returned: res is the
\* place the ConfigurationError is raised at, or "continues" when line 163
\* goes on to the credential
VdValidate ==
    /\ fn.pc = "loaded"
    /\ config_data = EmptyDict
    /\ LET v == Validate(fn.arg, DOMAIN config_data = {}, secure, log_level)
           cd == NormalizeInsecure(fn.arg)
       IN /\ log_level' = v.level
          /\ IF v.verdict = "raise"
             THEN /\ fn' = [fn EXCEPT !.pc = "done", !.res = "validation"]
                  /\ UNCHANGED config_data
             ELSE /\ config_data' = cd
                  /\ fn' = [fn EXCEPT !.pc = "done",
                                      !.res = IF cd["voipnowTokenFile"] = ""
                                              THEN "token_file" ELSE "continues"]
    /\ UNCHANGED vdOthers

NextValid == VdValidate
SpecValid == InitValid /\ [][NextValid]_vars

(***************************************************************************)
(* SpecExpiry: check_token (token.py lines 147-157) applied to a           *)
(* credential file at a time of the clock, both around the expiry horizon. *)
(***************************************************************************)
ExpiryInputs ==
    UNION { { [now |-> n, expiresAt |-> e] :
                  e \in {0} \cup { n + EXPIRY_HORIZON_SECONDS + d :
                                      d \in (0 - MaxSkew)..MaxSkew } } :
            n \in 0..MaxNow }

InitExpiry ==
    /\ CmInit /\ secure = FALSE /\ hashfile = Absent
    /\ LfRest
    /\ TcRest
    /\ watch = NoWatch
    /\ rt = NoRoundTrip
    /\ fn \in [pc : {"stored"}, arg : ExpiryInputs, res : {<<>>}]
    /\ cc = NoCc
    /\ lp = NoLoop

\* check_token(path) at time.time() = arg.now, the file holding
\* "<issued>:<expiresAt>:<secret>"
ExCheckToken ==
    /\ fn.pc = "stored"
    /\ fn' = [fn EXCEPT !.pc = "checked",
                        !.res = CheckToken(File(TokenData(0, fn.arg.expiresAt, Secret(1))),
                                           fn.arg.now)]
    /\ UNCHANGED <<envVars, fsVars, cmVars, ctlVars, sched, rdVars, loads, lfVars, tcVars,
                   watch, rt, cc, lp>>

NextExpiry == ExCheckToken
SpecExpiry == InitExpiry /\ [][NextExpiry]_vars

(***************************************************************************)
(* SpecHash: lines 172-207 of load_config, with check_config_change        *)
(* (token.py lines 173-238) one file operation at a time, in two           *)
(* cooperating processes that share the configuration file, the            *)
(* fingerprint file and the credential file.  Process p1 also runs one     *)
(* scheduled check (token.py lines 313-319), which holds the configuration *)
(* its checker was created with.  A process may be killed between any two  *)
(* file operations and started again.  The clock stands still.             *)
(***************************************************************************)
\* the two contents of the configuration file: they differ in appSecret
AuthConfigs == <<BaseDoc, With(BaseDoc, "appSecret", "S2")>>

InitHash ==
    /\ CmInit /\ secure = FALSE /\ hashfile = Absent
    /\ LfRest
    /\ TcRest
    /\ watch = NoWatch
    /\ rt = NoRoundTrip
    /\ fn = NoCall
    /\ cc = NoCc
    /\ lp = NoLoop

hcOthers ==
    <<envVars, issued, cmVars, ctlVars, sched, rdVars, loads, lfVars, tcVars, watch, rt, fn,
      lp>>

Goes(p, to) == [cc EXCEPT !.proc[p].pc = to]
\* the file written through the descriptor that process p holds: the one at
\* the fingerprint path, the one at the .tmp path, or one no path names
WriteThrough(p, f, path) ==
    IF cc.proc[p].fd = path THEN File(ConfigHash(AuthConfigs[cc.proc[p].cfg])) ELSE f
\* the descriptors after os.rename(temp_file, config_hash_file)
AfterRename(procs) ==
    [q \in Procs |-> [procs[q] EXCEPT !.fd = CASE @ = "tmp" -> "hash"
                                              [] @ = "hash" -> "gone"
                                              [] OTHER -> @]]
\* the descriptors after os.remove(temp_file)
AfterRemove(procs) ==
    [q \in Procs |-> [procs[q] EXCEPT !.fd = IF @ = "tmp" THEN "gone" ELSE @]]

\* the operator edits the configuration file
HcEdit ==
    /\ cc.file = 1
    /\ cc' = [cc EXCEPT !.file = 2, !.edited = TRUE]
    /\ UNCHANGED <<tokfile, hashfile, hcOthers>>

\* load_config lines 95-161: the document is read and accepted
HcStart(p) ==
    /\ cc.proc[p].pc = "idle"
    /\ cc.proc[p].loads < MaxCcLoads
    /\ cc' = [cc EXCEPT !.proc[p] = [@ EXCEPT !.pc = "cc_read", !.cfg = cc.file,
                                              !.changed = FALSE, !.loads = @ + 1]]
    /\ UNCHANGED <<tokfile, hashfile, hcOthers>>

\* check_config_change lines 193-196 and 224-227: the stored fingerprint
HcRead(p) ==
    /\ cc.proc[p].pc = "cc_read"
    /\ cc' = Goes(p, IF ~hashfile.exists THEN "cc_create_open"
                     ELSE IF hashfile.data # ConfigHash(AuthConfigs[cc.proc[p].cfg])
                     THEN "cc_tmp_open" ELSE "need")
    /\ UNCHANGED <<tokfile, hashfile, hcOthers>>

\* line 201: open(temp_file, 'w') creates or truncates <hash file>.tmp
HcTmpOpen(p) ==
    /\ cc.proc[p].pc = "cc_tmp_open"
    /\ cc' = [cc EXCEPT !.tmp = File(<<>>),
                        !.proc[p] = [@ EXCEPT !.pc = "cc_tmp_write", !.fd = "tmp"]]
    /\ UNCHANGED <<tokfile, hashfile, hcOthers>>

\* lines 202-204: write, flush, fsync and close
HcTmpWrite(p) ==
    /\ cc.proc[p].pc = "cc_tmp_write"
    /\ hashfile' = WriteThrough(p, hashfile, "hash")
    /\ cc' = [cc EXCEPT !.tmp = WriteThrough(p, cc.tmp, "tmp"),
                        !.proc[p] = [@ EXCEPT !.pc = "cc_rename", !.fd = "none"]]
    /\ UNCHANGED <<tokfile, hcOthers>>

\* line 207: os.rename; FileNotFoundError when the .tmp entry is gone, which
\* the except clause of line 227 takes for a missing fingerprint file
HcRename(p) ==
    /\ cc.proc[p].pc = "cc_rename"
    /\ IF cc.tmp.exists
       THEN /\ hashfile' = cc.tmp
            /\ cc' = [cc EXCEPT !.tmp = Absent,
                                !.proc = [AfterRename(cc.proc) EXCEPT ![p].pc = "cc_cleanup"]]
       ELSE /\ cc' = Goes(p, "cc_create_open")
            /\ UNCHANGED hashfile
    /\ UNCHANGED <<tokfile, hcOthers>>

\* lines 209-216 (finally): a .tmp entry that exists is removed
HcCleanup(p) ==
    /\ cc.proc[p].pc = "cc_cleanup"
    /\ cc' = [cc EXCEPT !.tmp = Absent,
                        !.proc = [(IF cc.tmp.exists THEN AfterRemove(cc.proc) ELSE cc.proc)
                                      EXCEPT ![p].pc = "cc_delete"]]
    /\ UNCHANGED <<tokfile, hashfile, hcOthers>>

\* lines 218-223: the credential file is deleted; returns True
HcDelete(p) ==
    /\ cc.proc[p].pc = "cc_delete"
    /\ tokfile' = Absent
    /\ cc' = [cc EXCEPT !.proc[p] = [@ EXCEPT !.pc = "need", !.changed = TRUE]]
    /\ UNCHANGED <<hashfile, hcOthers>>

\* line 231: open(config_hash_file, 'w') creates or truncates the
\* fingerprint file itself
HcCreateOpen(p) ==
    /\ cc.proc[p].pc = "cc_create_open"
    /\ hashfile' = File(<<>>)
    /\ cc' = [cc EXCEPT !.proc[p] = [@ EXCEPT !.pc = "cc_create_write", !.fd = "hash"]]
    /\ UNCHANGED <<tokfile, hcOthers>>

\* lines 232-238: write, flush, fsync and close; returns False
HcCreateWrite(p) ==
    /\ cc.proc[p].pc = "cc_create_write"
    /\ hashfile' = WriteThrough(p, hashfile, "hash")
    /\ cc' = [cc EXCEPT !.tmp = WriteThrough(p, cc.tmp, "tmp"),
                        !.proc[p] = [@ EXCEPT !.pc = "need", !.fd = "none"]]
    /\ UNCHANGED <<tokfile, hcOthers>>

\* main.py lines 178-193: needs_regeneration
HcNeed(p) ==
    /\ cc.proc[p].pc = "need"
    /\ cc' = Goes(p, IF ~tokfile.exists \/ CheckToken(tokfile, now) # "fresh"
                     THEN "gen" ELSE "read")
    /\ UNCHANGED <<tokfile, hashfile, hcOthers>>

\* main.py lines 196-197: generate_token(self.config_data)
HcGenerate(p) ==
    /\ cc.proc[p].pc = "gen"
    /\ \E lifetime \in Lifetimes :
           tokfile' = File(TokenData(now, lifetime, Secret(cc.proc[p].cfg)))
    /\ cc' = [cc EXCEPT !.proc[p].pc = "read", !.madeWith = cc.proc[p].cfg]
    /\ UNCHANGED <<hashfile, hcOthers>>

\* main.py lines 199-223: the credential is read and published, the checker
\* is started with self.config_data
HcReadToken(p) ==
    /\ cc.proc[p].pc = "read"
    /\ cc' = [cc EXCEPT !.proc[p] = [@ EXCEPT !.pc = "idle", !.up = SafeReadTokenFile(tokfile).ok]]
    /\ UNCHANGED <<tokfile, hashfile, hcOthers>>

\* the process is killed inside lines 172-207 (no finally clause runs) and
\* started again
HcCrash(p) ==
    /\ cc.proc[p].pc # "idle"
    /\ cc' = [cc EXCEPT !.proc[p] = [NoProc EXCEPT !.loads = cc.proc[p].loads],
                        !.crashed = TRUE,
                        !.chk = IF p = "p1" /\ cc.chk.pc = "issuing"
                                THEN [cc.chk EXCEPT !.pc = "done"] ELSE cc.chk]
    /\ UNCHANGED <<tokfile, hashfile, hcOthers>>

\* token.py lines 313-316 on p1's timer thread: check_token answers true and
\* generate_token(self.config_mcp) sends its request
HcCheckBegin ==
    /\ cc.chk.pc = "off"
    /\ cc.proc["p1"].up
    /\ cc.proc["p1"].pc = "idle"
    /\ CheckToken(tokfile, now) = "expiring"
    /\ cc' = [cc EXCEPT !.chk = [pc |-> "issuing", cfg |-> cc.proc["p1"].cfg]]
    /\ UNCHANGED <<tokfile, hashfile, hcOthers>>

\* token.py lines 107-133 on the timer thread: the credential file is
\* replaced
HcCheckWrite ==
    /\ cc.chk.pc = "issuing"
    /\ \E lifetime \in Lifetimes :
           tokfile' = File(TokenData(now, lifetime, Secret(cc.chk.cfg)))
    /\ cc' = [cc EXCEPT !.chk.pc = "done", !.madeWith = cc.chk.cfg]
    /\ UNCHANGED <<hashfile, hcOthers>>

NextHash ==
    \/ HcEdit
    \/ \E p \in Procs :
          \/ HcStart(p) \/ HcRead(p) \/ HcTmpOpen(p) \/ HcTmpWrite(p) \/ HcRename(p)
          \/ HcCleanup(p) \/ HcDelete(p) \/ HcCreateOpen(p) \/ HcCreateWrite(p)
          \/ HcNeed(p) \/ HcGenerate(p) \/ HcReadToken(p) \/ HcCrash(p)
    \/ HcCheckBegin
    \/ HcCheckWrite
SpecHash == InitHash /\ [][NextHash]_vars

(***************************************************************************)
(* SpecSecrecy: what one reload writes to the log and puts in the          *)
(* exceptions it raises while it checks the credential (main.py lines      *)
(* 172-193, token.py lines 40-69 and 147-157), in two runs side by side.   *)
(* Both runs find the fingerprint of BaseDoc stored; a run is the          *)
(* appSecret of its document and the credential file it finds.             *)
(***************************************************************************)
SecrecyFiles ==
    {Absent} \cup
    { File(d) : d \in { TokenData(0, 400, <<"a">>), TokenData(0, 400, <<"b">>),
                        TokenData(0, 200, <<"a">>), TokenData(0, 200, <<"b">>),
                        <<"0", ":", "x", ":", "a">>, <<"0", ":", "x", ":", "b">>,
                        <<"0", ":", "400">>, <<>> } }
SecrecyRuns == [appSecret : {"S1", "S2"}, tok : SecrecyFiles]

\* the credential file without its secret (the text after the second colon)
Redact(f) ==
    IF f.exists /\ Len(Split(f.data, ":")) >= 3
    THEN File(Split(f.data, ":")[1] \o <<":">> \o Split(f.data, ":")[2] \o <<":">>)
    ELSE f

\* _safe_read_token_file, lines 59-69: the text of the ValueError it raises
SafeReadError(f) ==
    IF ~f.exists THEN <<"Failed to read token file: ", "FileNotFoundError">>
    ELSE IF f.data = <<>> THEN <<"Token file is empty">>
    ELSE <<"Invalid token format: expected 3 colon-separated parts, got ",
           ToString(Len(Split(f.data, ":")))>>
\* check_token, lines 155-157: the text of the ValueError it raises; int()
\* quotes its argument in its own message
CheckTokenError(f) ==
    <<"Failed to read or parse token file: ">> \o
    ( IF ~SafeReadTokenFile(f).ok THEN SafeReadError(f)
      ELSE <<"invalid literal for int() with base 10: '">> \o Split(f.data, ":")[2] \o <<"'">> )

\* main.py lines 172-193 at time 0: the log messages and exception texts, in
\* order
ReloadTrace(run) ==
    LET c == CheckConfigChange(With(BaseDoc, "appSecret", run.appSecret),
                               File(ConfigHash(BaseDoc)), run.tok)
        quiet == c.changed
    IN (IF c.changed
        THEN << <<"Authentication configuration changed. ",
                  "Token file deleted, generating new token...">> >>
        ELSE <<>>)
       \o
       (IF ~c.tokfile.exists
        THEN IF quiet THEN <<>> ELSE << <<"Token file not found. Generating new token...">> >>
        ELSE CASE CheckToken(c.tokfile, 0) = "expiring" ->
                      IF quiet THEN <<>>
                      ELSE << <<"Token file expired. Generating new token...">> >>
               [] CheckToken(c.tokfile, 0) = "ValueError" ->
                      << CheckTokenError(c.tokfile),
                         <<"Token file corrupted, regenerating...">> >>
               [] OTHER -> <<>>)

InitSecrecy ==
    /\ CmInit /\ secure = FALSE /\ hashfile = File(ConfigHash(BaseDoc))
    /\ LfRest
    /\ TcRest
    /\ watch = NoWatch
    /\ rt = NoRoundTrip
    /\ cc = NoCc
    /\ lp = NoLoop
    /\ fn \in [pc : {"begin"}, arg : [a : SecrecyRuns, b : SecrecyRuns], res : {<<>>}]
    /\ Redact(fn.arg.a.tok) = Redact(fn.arg.b.tok)

\* both runs execute lines 172-193
SrReload ==
    /\ fn.pc = "begin"
    /\ fn' = [fn EXCEPT !.pc = "done",
                        !.res = [a |-> ReloadTrace(fn.arg.a), b |-> ReloadTrace(fn.arg.b)]]
    /\ UNCHANGED <<envVars, fsVars, cmVars, ctlVars, sched, rdVars, loads, lfVars, tcVars,
                   watch, rt, cc, lp>>

NextSecrecy == SrReload
SpecSecrecy == InitSecrecy /\ [][NextSecrecy]_vars

(***************************************************************************)
(* SpecLoop: the process after its first load, with no operator, no signal *)
(* and an issuer that always answers: the scheduled check (token.py lines  *)
(* 313-319), the observer with its handler (main.py lines 348-371) and the *)
(* reload the handler runs (main.py lines 176-218).  The observer watches  *)
(* the directory of the configuration file only (main.py lines 305-306);   *)
(* a replaced credential file in that directory raises a modification      *)
(* event (the chmod of token.py line 133), elsewhere it raises none.  The  *)
(* clock of the credential (now) stands still while tenths of a second     *)
(* pass for the handler.                                                   *)
(***************************************************************************)
InitLoop ==
    /\ secure = FALSE /\ now = 0 /\ hashfile = File(ConfigHash(BaseDoc))
    /\ \E lifetime \in Lifetimes : tokfile = File(TokenData(now, lifetime, Secret(1)))
    /\ config_data = BaseDoc
    /\ voipnow_token = Secret(1)
    /\ heap = <<[set |-> TRUE, voipnowUrl |-> BaseDoc["voipnowHost"],
                 voipnowToken |-> Secret(1), insecure |-> PyFalse, pub |-> 1]>>
    /\ voipnow_config = 1
    /\ log_level = "INFO"
    /\ lock = "free"
    /\ constructed = TRUE
    /\ first_ok = TRUE
    /\ reload = NoReload
    /\ sched = [token_checker |-> 0, checkers |-> <<>>, timers |-> <<>>]
    /\ pc = [a \in Activations |-> IF a = "main" THEN "idle" ELSE "off"]
    /\ result = "ok"
    /\ snap = 0 /\ seen = <<>> /\ loads = 1 /\ issued = 1 /\ reads = 0
    /\ LfRest
    /\ TcRest
    /\ watch = NoWatch
    /\ rt = NoRoundTrip
    /\ fn = NoCall
    /\ cc = NoCc
    /\ lp \in [inDir : BOOLEAN, issues : {1}, checks : {0}, origins : {<<>>},
                reloadIssues : {0}]

lpOthers ==
    <<envVars, hashfile, issued, config_data, log_level, ctlVars, sched, rdVars, loads,
      lfVars, tcVars, rt, fn, cc>>

\* the observer's queue after the credential file was replaced, and the
\* writers of the events raised so far
Raised(queue) == IF lp.inDir THEN Append(queue, "token") ELSE queue
Origins(writer) == IF lp.inDir THEN Append(lp.origins, writer) ELSE lp.origins

\* token.py lines 313-319: a scheduled check; generate_token when
\* check_token answers true
LpCheck ==
    /\ lp.checks < MaxChecks
    /\ IF CheckToken(tokfile, now) = "expiring" /\ lp.issues < MaxIssues
       THEN \E lifetime \in Lifetimes :
               /\ tokfile' = File(TokenData(now, lifetime, Secret(lp.issues + 1)))
               /\ lp' = [lp EXCEPT !.checks = @ + 1, !.issues = @ + 1,
                                    !.origins = Origins("check")]
               /\ watch' = [watch EXCEPT !.queue = Raised(@)]
       ELSE /\ lp' = [lp EXCEPT !.checks = @ + 1]
            /\ UNCHANGED <<tokfile, watch>>
    /\ UNCHANGED <<voipnow_token, voipnow_config, heap, lpOthers>>

\* main.py lines 368-371 and 176-218: the settle delay is over and
\* load_config runs: needs_regeneration, generate_token, the read of the
\* credential file, the publish.  At the last instant of the clock the
\* delay is taken to be over.
LpLoad ==
    /\ watch.pc = "sleep"
    /\ \/ watch.clock >= watch.last_reload_time[watch.modified_path] + SETTLE_TENTHS
       \/ watch.clock = MaxClock
    /\ LET needs_regeneration == ~tokfile.exists \/ CheckToken(tokfile, now) # "fresh"
           called == [watch EXCEPT !.pc = "load", !.calls[watch.modified_path] = @ + 1]
       IN IF needs_regeneration /\ lp.issues < MaxIssues
          THEN \E lifetime \in Lifetimes :
                  /\ tokfile' = File(TokenData(now, lifetime, Secret(lp.issues + 1)))
                  /\ lp' = [lp EXCEPT
                               !.issues = @ + 1,
                               !.origins = Origins("reload"),
                               !.reloadIssues =
                                   IF lp.origins[Len(lp.origins) - Len(watch.queue)] = "reload"
                                   THEN @ + 1 ELSE @]
                  /\ watch' = [called EXCEPT !.queue = Raised(@)]
          ELSE /\ watch' = called
               /\ UNCHANGED <<tokfile, lp>>
    /\ voipnow_token' = LastPart(tokfile'.data)
    /\ LET p == Publish(heap, voipnow_config,
                        [set |-> TRUE, voipnowUrl |-> config_data["voipnowHost"],
                         voipnowToken |-> LastPart(tokfile'.data),
                         insecure |-> PyFalse, pub |-> Len(heap) + 1])
       IN heap' = p.heap /\ voipnow_config' = p.ref
    /\ UNCHANGED lpOthers

NextLoop ==
    \/ LpCheck
    \/ TickWatch
    \/ OmBegin
    \/ LpLoad
    \/ OmReturn
SpecLoop ==
    /\ InitLoop
    /\ [][NextLoop]_vars
    /\ WF_vars(TickWatch) /\ WF_vars(OmBegin) /\ WF_vars(LpLoad) /\ WF_vars(OmReturn)

(***************************************************************************)
(* Properties of the ConfigManager.                                        *)
(***************************************************************************)
InBody(a) == pc[a] \in BodyPcs

\* the main configuration of the last "Configuration reloaded.": the
\* scheduled check is restarted with it at every publish (line 223)
LastGoodMainConfig == sched.checkers[sched.token_checker].config_mcp

\* C1: at most one activation is inside the body of load_config at any
\* time, and the one inside holds the ConfigManager mutex, so two reloads
\* never interleave their steps
C1_ReloadsMutuallyExclusive ==
    \A a \in Activations :
        InBody(a) => /\ lock = a
                     /\ \A b \in Activations : InBody(b) => b = a

\* a reload is inside the issuer call while another reload is waiting for
\* the mutex
C1_Witness ==
    \E a, b \in Activations :
        /\ a # b
        /\ pc[a] \in IssuerPcs
        /\ pc[b] = "lc_lock"
        /\ CanRun(b)

\* C2: when the first load fails, construction does not return normally:
\* a constructed ConfigManager has published a VoipNow configuration
C2_FirstLoadFailureIsFatal ==
    constructed => heap[voipnow_config].set

\* C3: after a successful first load no error of a later reload escapes
\* load_config, and once the reload is over the ConfigManager still holds
\* the last-known-good main configuration
C3_ReloadErrorsContained ==
    first_ok =>
        /\ \A a \in Activations : pc[a] \notin {"dead", "crashed"}
        /\ lock = "free" => config_data = LastGoodMainConfig

\* C4: a reload that is skipped (missing keys, extra keys, missing
\* authTokenMCP in secure mode) returns without changing any state
C4_SkippedReloadChangesNothing ==
    [][(/\ first_ok
        /\ \E a \in Activations : pc[a] = "lc_begin" /\ pc'[a] # "lc_begin"
        /\ result' = "skipped")
       => UNCHANGED <<fsVars, cmVars, sched>>]_vars

\* C5: every field a tool call reads from the VoipNow configuration it got
\* from get_config comes from one publish, whatever reloads publish in the
\* meantime
C5_SnapshotFromOnePublish ==
    \A i \in 1..Len(seen) : seen[i] = seen[1]

\* a tool call has read its three fields from a configuration that a
\* reload has replaced since the call took it
C5_Witness ==
    /\ Len(seen) = 3
    /\ heap[snap].set
    /\ snap # voipnow_config

\* C7 as stated: a get_config call is never kept waiting by a reload that
\* is inside the issuer call
C7_ReadersNeverWaitForIssuer ==
    \A r \in {"main", "watcher"} :
        (pc[r] = "gc_lock" /\ CanRun(r))
            => ~ \E a \in Activations : lock = a /\ pc[a] \in IssuerPcs

\* C7: get_config holds the ConfigManager mutex, so a get_config call
\* never runs, and never returns, while a reload is anywhere in the body of
\* load_config, the issuer call included
C7_ReadersExcludedDuringReload ==
    \A r \in {"main", "watcher"} :
        pc[r] = "gc_in" => \A a \in Activations : ~ InBody(a)

\* a tool call's get_config waits for the mutex while a reload is inside
\* the issuer call
C7_Witness ==
    /\ pc["main"] = "gc_lock"
    /\ \E a \in Activations : lock = a /\ pc[a] \in IssuerPcs

\* C8: the SIGHUP handler never waits for a mutex held by a frame of the
\* thread it interrupted
C8_SighupNeverDeadlocks ==
    \A h \in HupFrames :
        pc[h] = "lc_lock" => lock \notin Below(h)

(***************************************************************************)
(* Properties of the credential file.                                      *)
(***************************************************************************)
\* C6: whatever the interleaving of the writers, what a reader reads from
\* the credential file is the complete previous credential or a complete
\* new one, and a writer whose data is in the credential file has not
\* reported failure
C6_CredentialFileAtomic ==
    /\ rdr.pc \in {"read", "returned", "ValueError"} /\ rdr.fd # 0
           => rdr.data \in CompleteCredentials
    /\ \A w \in Writers :
           wr[w].pc = "failed" => inodes[dir.tok].data # DataOf(w)

(***************************************************************************)
(* Properties of the scheduled check.                                      *)
(***************************************************************************)
PendingTimers == {t \in Timers : TimerState(t) = "pending"}
\* the threads inside the body of _check_token, past its running guard
InCheckBody == {t \in Timers : TimerState(t) \in {"ck_body", "ck_issue", "ck_next"}}

\* C9: at every moment at most one timer is pending
C9_AtMostOnePendingTimer == Cardinality(PendingTimers) <= 1

\* C10: no two executions of the body of _check_token overlap
C10_CheckNeverOverlapsItself == Cardinality(InCheckBody) <= 1

\* a timer that will never fire, or whose thread has ended
EndedStates == {"cancelled", "finished", "rejected", "died"}
\* the timers of checker c that are armed or whose thread is still running
LiveTimers(c) == {t \in Timers : Owner(t) = c /\ TimerState(t) \notin EndedStates}

\* C11: once the issuer has rejected a scheduled reissue with 401
\* invalid_client and stop() has cleared the running flag, the checker is
\* not running, none of its timers is armed and no other check of it is
\* under way
C11_RejectedCheckerStopped ==
    \A t \in Timers :
        TimerState(t) \in {"stop_test", "stop_cancel", "stop_clear", "rejected"}
            => /\ ~ sched.checkers[Owner(t)].running
               /\ LiveTimers(Owner(t)) \subseteq {t}

\* a check has ended in the invalid_client rejection
C11_Witness == \E t \in Timers : TimerState(t) = "rejected"

\* C12: a checker that nobody stopped and that the issuer has not rejected
\* always has a timer armed or a check under way
C12_OnlyRejectionEndsChain ==
    \A c \in 1..Len(sched.checkers) :
        sched.checkers[c].running => LiveTimers(c) # {}

\* C13: a check that found the credential fresh, or reissued it, passes
\* min(expiresAt - now, interval) to _schedule_next_check (interval when the
\* credential is already past expiry), the timer is armed with the delay
\* passed, and every timer ever created has a delay that is strictly
\* positive and at most the interval
C13_NextCheckDelay ==
    /\ [](\A t \in Timers :
             /\ 0 < sched.timers[t].delay
             /\ sched.timers[t].delay <= sched.checkers[Owner(t)].interval)
    /\ [][\A t \in Timers :
             LET interval == sched.checkers[Owner(t)].interval
                 expiresAt == GetExpirationTimestamp(tokfile)
             IN /\ (/\ TimerState(t) = "ck_next"
                    /\ sched'.timers[t].state = "sn_guard"
                    /\ expiresAt.ok)
                   => sched'.timers[t].arg =
                         IF expiresAt.val <= now THEN interval
                         ELSE IF expiresAt.val - now < interval
                         THEN expiresAt.val - now ELSE interval
                /\ (/\ TimerState(t) = "sn_create"
                    /\ sched'.timers[t].state = "sn_start")
                   => sched'.timers[Len(sched'.timers)].delay = sched.timers[t].arg
         ]_vars

\* after a reissue the next check is armed at the lifetime of the new
\* credential, which is shorter than the interval
C13_Witness ==
    \E t \in Timers :
        /\ TimerState(t) = "pending"
        /\ sched.timers[t].delay < TOKEN_CHECK_INTERVAL_SECONDS
        /\ sched.timers[t].delay \in Lifetimes

\* C14: a scheduled reissue that ended in a transient failure, a failed
\* write of the credential file included, has not changed the credential
\* file: the file does not hold the credential of a generate_token call of
\* the scheduled check that raised IOError
C14_FailedReissueLeavesFile ==
    wr["timer"].pc = "failed" => inodes[dir.tok].data # DataOf("timer")

\* no activation is inside the body of load_config
ReloadEnded == \A a \in Activations : pc[a] \notin BodyPcs

\* C15: a reload, after a successful first load, that found a stored
\* fingerprint different from the one it computed makes no second
\* generate_token call, and when it has ended with "Configuration reloaded."
\* it has made exactly one and the secret it published is the one that call
\* was issued
C15_FingerprintChangeOneIssue ==
    (reload.after_ok /\ reload.decided /\ reload.changed) =>
        /\ reload.calls <= 1
        /\ (ReloadEnded /\ result = "ok") =>
               /\ reload.calls = 1
               /\ heap[voipnow_config].voipnowToken = Secret(issued)

\* C16: a load_config whose document passed validation calls generate_token
\* once when, after check_config_change, the credential file is absent,
\* malformed or expiring, and never otherwise; and a load_config removes the
\* credential file only when the fingerprint file exists and holds another
\* fingerprint than the computed one
C16_IssueOnlyWhenNeeded ==
    /\ [](reload.decided => reload.calls <= (IF reload.needed THEN 1 ELSE 0))
    /\ []((reload.decided /\ ReloadEnded)
              => reload.calls = (IF reload.needed THEN 1 ELSE 0))
    /\ [][(/\ \E a \in Activations : pc[a] = "lc_begin" /\ pc'[a] # "lc_begin"
           /\ tokfile.exists
           /\ ~ tokfile'.exists)
          => (hashfile.exists /\ hashfile.data # ConfigHash(config_data'))]_vars

\* C17: when a generate_token call of a reload that follows a successful
\* load ended in a requests exception (TLS failure, HTTP rejection,
\* connection failure, timeout), load_config has returned normally and
\* voipnow_config is, field for field, the dict that was published when the
\* reload began, which holds a credential
C17_IssuerFailureKeepsRuntimeConfig ==
    (reload.after_ok /\ reload.outcome \in RequestExceptions) =>
        /\ ReloadEnded
        /\ result = "logged"
        /\ heap[voipnow_config] = reload.before
        /\ heap[voipnow_config].set

C17_Witness ==
    /\ reload.after_ok
    /\ reload.outcome \in {"Timeout", "ConnectionError", "SSLError", "HTTPError"}
    /\ reload.changed
    /\ ReloadEnded
    /\ ~ tokfile.exists

\* C28: after the first load, whenever get_config can take the mutex, the
\* two parts it returns agree: voipnow_config.voipnowUrl is
\* main_config.voipnowHost and voipnow_config.insecure is the normalized
\* main_config.insecure.
C28_ReturnedPartsConsistent ==
    (first_ok /\ lock = "free") =>
        /\ heap[voipnow_config].voipnowUrl = Get(config_data, "voipnowHost", <<>>)
        /\ heap[voipnow_config].insecure = Get(config_data, "insecure", PyFalse)

(***************************************************************************)
(* Properties of the watcher.                                              *)
(***************************************************************************)
\* the events raised so far for p form one burst: all within one window
Burst(p) == watch.raised[p].n >= 1 /\ watch.raised[p].within
\* every event raised so far for p has been handled up to the decision
\* whether to reload
Handled(p) ==
    /\ \A i \in 1..Len(watch.queue) : watch.queue[i] # p
    /\ ~ (watch.pc = "sleep" /\ watch.modified_path = p)

\* C18: the events of one burst for a watched path, however many and
\* however long the reload they trigger takes, lead to exactly one
\* load_config call; and an event for a path whose last accepted event is
\* absent or at least a second old is accepted whatever happened to the
\* other path
C18_Debounce ==
    /\ [](\A p \in WatchedPaths :
              Burst(p) => /\ watch.calls[p] <= 1
                          /\ Handled(p) => watch.calls[p] = 1)
    /\ [][\A p \in WatchedPaths :
             (/\ watch.pc = "idle"
              /\ watch.queue # <<>>
              /\ Head(watch.queue) = p
              /\ Len(watch'.queue) < Len(watch.queue)
              /\ \/ p \notin DOMAIN watch.last_reload_time
                 \/ watch.clock - watch.last_reload_time[p] >= DEBOUNCE_TENTHS)
             => (watch'.pc = "sleep" /\ watch'.modified_path = p)]_vars

\* C27: no lost update: when the configuration file was modified two or
\* more times within one debounce window and then left alone, the content
\* of the last modification is eventually what load_config has read, once
\* every event has been handled.
C27_LastModificationLoaded ==
    <>[]( ( /\ watch.raised["config"].n >= 2
            /\ watch.raised["config"].within
            /\ watch.pc = "idle"
            /\ watch.queue = <<>> )
          => watch.loaded = watch.raised["config"].n )

(***************************************************************************)
(* Termination of the credential file operations.                          *)
(***************************************************************************)
\* C19: a caller of _safe_read_token_file or generate_token that waits for
\* the advisory lock on the file it opened gets past the wait (with the
\* lock or with an error), whoever holds a conflicting lock and for however
\* long
C19_BoundedLockAcquisition ==
    /\ (rdr.pc = "opened") ~> (rdr.pc # "opened")
    /\ \A w \in Writers : (wr[w].pc = "opened") ~> (wr[w].pc # "opened")

(***************************************************************************)
(* Round trip of a credential through the credential file.                 *)
(***************************************************************************)
\* C20: a credential written as issuedAt:expiresAt:secret and read back has
\* the expiry and the secret that were written, for every secret, one that
\* contains ":" included: the secret load_config takes from the file is the
\* access_token the issuer returned
C20_CredentialRoundTrip ==
    rt.pc \in {"loaded", "ValueError"} =>
        /\ rt.pc = "loaded"
        /\ rt.read.expiresAt = rt.issuedAt + rt.expires_in
        /\ rt.read.secret = rt.access_token


(***************************************************************************)
(* Validation of the configuration document.                               *)
(***************************************************************************)
\* C21: on a first load the validation of lines 99-154 lets the document
\* through (raises no ConfigurationError) exactly when the four required keys
\* are present, every key is one of the seven allowed keys and voipnowHost
\* starts with http:// or https://, and, in secure mode, authTokenMCP is
\* present as well.
C21_ValidationAcceptsExactly ==
    fn.pc = "done" =>
        ( fn.res # "validation"
          <=> /\ {"appId", "appSecret", "voipnowHost", "voipnowTokenFile"} \subseteq DOMAIN fn.arg
              /\ DOMAIN fn.arg \subseteq
                     {"appId", "appSecret", "voipnowHost", "voipnowTokenFile",
                      "authTokenMCP", "logLevel", "insecure"}
              /\ \/ StartsWith(fn.arg["voipnowHost"], HTTP)
                 \/ StartsWith(fn.arg["voipnowHost"], HTTPS)
              /\ secure => "authTokenMCP" \in DOMAIN fn.arg )
\* a document without authTokenMCP was let through with secure mode off
C21_Witness ==
    /\ fn.pc = "done"
    /\ fn.res = "continues"
    /\ ~secure
    /\ "authTokenMCP" \notin DOMAIN fn.arg

(***************************************************************************)
(* The expiry horizon.                                                     *)
(***************************************************************************)
\* C22: check_token returns true exactly when now >= expiresAt - 300 for the
\* credential stored at the path: true at now = expiresAt - 300, false one
\* second earlier.
C22_CheckTokenBoundary ==
    fn.pc = "checked" =>
        /\ fn.res \in {"expiring", "fresh"}
        /\ fn.res = "expiring" <=> fn.arg.now >= fn.arg.expiresAt - 300
        /\ fn.arg.now = fn.arg.expiresAt - 300 => fn.res = "expiring"
        /\ fn.arg.now = fn.arg.expiresAt - 301 => fn.res = "fresh"
\* check_token answered true at exact equality
C22_Witness ==
    /\ fn.pc = "checked"
    /\ fn.arg.now > 0
    /\ fn.arg.now = fn.arg.expiresAt - 300
    /\ fn.res = "expiring"

(***************************************************************************)
(* The fingerprint file.                                                   *)
(***************************************************************************)
\* C23: every write of the fingerprint file goes through a temporary file
\* and a rename, so a concurrent check_config_change never reads an empty or
\* partial fingerprint and never takes an unchanged configuration for a
\* changed one: while the configuration file is not edited and no process is
\* killed, no check_config_change returns True.
C23_FingerprintWrittenAtomically ==
    (~cc.edited /\ ~cc.crashed) => \A p \in Procs : ~cc.proc[p].changed

\* C29: starting with neither file on disk, whenever the fingerprint file and
\* the credential file both exist and no process is inside lines 172-207 and
\* no scheduled check is inside generate_token, the credential in the file
\* was issued for the configuration whose fingerprint is stored.
C29_CredentialMatchesFingerprint ==
    ( /\ \A p \in Procs : cc.proc[p].pc = "idle"
      /\ cc.chk.pc # "issuing"
      /\ hashfile.exists
      /\ tokfile.exists )
    => hashfile.data = ConfigHash(AuthConfigs[cc.madeWith])

(***************************************************************************)
(* Secrecy of the log.                                                     *)
(***************************************************************************)
\* C24: two runs that differ only in the credential secret or in the
\* application secret produce the same log messages and exception texts, and
\* no field of the credential file appears in a message.
C24_SecretsDoNotReachMessages ==
    fn.pc = "done" =>
        /\ fn.res.a = fn.res.b
        /\ \A run \in {"a", "b"} : \A i \in 1..Len(fn.res[run]) :
               \A k \in 1..Len(fn.res[run][i]) :
                   <<fn.res[run][i][k]>> \notin
                       { part \in {Split(fn.arg[run].tok.data, ":")[j] :
                                       j \in 1..Len(Split(fn.arg[run].tok.data, ":"))} :
                             part # <<>> }

(***************************************************************************)
(* Termination of load_config.                                             *)
(***************************************************************************)
\* C25: the retry after a token error never tries to take the ConfigManager
\* mutex again while the same thread already holds it: no activation is at
\* the "with self.lock" of a nested load_config while it owns the mutex.
C25_RetryNeverReacquiresHeldMutex ==
    \A a \in Activations : ~(pc[a] = "lc_relock" /\ lock = a)

(***************************************************************************)
(* The running system left to itself.                                      *)
(***************************************************************************)
\* C26: after a scheduled check has replaced the credential, the dict
\* get_config returns eventually carries the secret that is in the
\* credential file, without a signal or an edit, wherever the credential
\* file lies.
C26_ReissuedSecretReachesReaders ==
    (heap[voipnow_config].voipnowToken # LastPart(tokfile.data))
        ~> (heap[voipnow_config].voipnowToken = LastPart(tokfile.data))

\* C30: a reload that on_modified starts for the event of a reload's own
\* write of the credential file makes no generate_token call, whatever
\* lifetime the issuer returned.
C30_OwnWriteCausesNoReissue ==
    lp.reloadIssues = 0
====
